---- MODULE Spec2Model ----
(***************************************************************************)
(* Model of the intent router of the retail analytics system               *)
(* (services/query_router.py) and of the data-service calls it makes.      *)
(*                                                                         *)
(* Python values are tagged records, so that None, integers, strings,      *)
(* lists and dicts can be told apart the way isinstance / `is None` /      *)
(* truthiness tell them apart.  A dict is a function from its keys to      *)
(* tagged values; an absent key is a key outside its DOMAIN.  Strings      *)
(* whose characters the code inspects (metric, date_range) are sequences   *)
(* of one-character strings (PyStr); strings it only passes around         *)
(* (status and reason tags, product ids) are atomic (Lit).                 *)
(***************************************************************************)
EXTENDS Integers, Sequences, FiniteSets, TLC

VARIABLES
    pc,        \* where the invocation of route_intent stands
    intent,    \* the Intent it was called with
    calls,     \* the data_service calls it has made
    request,   \* the HTTP request of the call in progress
    http,      \* what requests.get did with that request
    payload,   \* the payload the data_service call returned, as it is left
    result,    \* the data of the RoutedResult
    routedResult, \* the RoutedResult returned
    raised,    \* the exception route_intent ended with
    stage,     \* where the request to /chat stands
    stages,    \* the stages of the pipeline it has started, in order
    userQuery, \* the query it was sent, stripped once accepted
    parsed,    \* the Intent parse_intent returned
    caught,    \* the exception the handler caught
    response,  \* the HTTP response it gave
    llmText,   \* the text the language model returned to parse_intent
    candidate, \* the structure handed to Intent.model_validate
    validation, \* what Intent.model_validate did with it
    parseOutcome, \* what parse_intent did: the Intent returned or the error raised
    db,        \* the rows of the transactions table, in insertion order
    apiRequest, \* the request the REST API was sent
    apiResponse \* the response it gave

routerVars == <<pc, intent, calls, request, http, payload, result, routedResult, raised>>

chatVars == <<stage, stages, userQuery, parsed, caught, response>>

parserVars == <<llmText, candidate, validation, parseOutcome>>

apiVars == <<db, apiRequest, apiResponse>>

vars == <<routerVars, chatVars, parserVars, apiVars>>

-----------------------------------------------------------------------------
(* Python values *)

None == [t |-> "none"]
PyInt(i) == [t |-> "int", v |-> i]
PyBool(b) == [t |-> "bool", v |-> b]
PyStr(s) == [t |-> "str", v |-> s]
Lit(s) == [t |-> "lit", v |-> s]
PyList(s) == [t |-> "list", v |-> s]
PyDict(d) == [t |-> "dict", v |-> d]

EmptyDict == [k \in {} |-> None]

IsNone(x) == x.t = "none"
IsList(x) == x.t = "list"
IsDict(x) == x.t = "dict"

\* bool(x) for the value kinds above
Truthy(x) ==
    CASE x.t = "none" -> FALSE
      [] x.t = "int"  -> x.v # 0
      [] x.t = "bool" -> x.v
      [] x.t = "str"  -> x.v # <<>>
      [] x.t = "lit"  -> x.v # ""
      [] x.t = "list" -> x.v # <<>>
      [] x.t = "dict" -> DOMAIN x.v # {}

\* d.get(k)
Get(d, k) == IF k \in DOMAIN d THEN d[k] ELSE None

\* d[k] = v on a dict (adds or replaces the key)
DictSet(d, k, v) == [x \in DOMAIN d \cup {k} |-> IF x = k THEN v ELSE d[x]]

\* s[:n]
Take(s, n) == SubSeq(s, 1, IF Len(s) < n THEN Len(s) ELSE n)

Min(a, b) == IF a < b THEN a ELSE b

-----------------------------------------------------------------------------
(* Strings as character sequences: str.strip, str.lower, `in`, str.split *)

Whitespace == {" ", "\t", "\n", "\r", "\f"}

UpperLetters == <<"A","B","C","D","E","F","G","H","I","J","K","L","M",
                  "N","O","P","Q","R","S","T","U","V","W","X","Y","Z">>
LowerLetters == <<"a","b","c","d","e","f","g","h","i","j","k","l","m",
                  "n","o","p","q","r","s","t","u","v","w","x","y","z">>

\* the case mappings of the ASCII letters
ToLower ==
    [c \in {UpperLetters[j] : j \in 1..Len(UpperLetters)} |->
        LowerLetters[CHOOSE j \in 1..Len(UpperLetters) : UpperLetters[j] = c]]

ToUpper ==
    [c \in {LowerLetters[j] : j \in 1..Len(LowerLetters)} |->
        UpperLetters[CHOOSE j \in 1..Len(LowerLetters) : LowerLetters[j] = c]]

LowerChar(c) == IF c \in DOMAIN ToLower THEN ToLower[c] ELSE c

UpperChar(c) == IF c \in DOMAIN ToUpper THEN ToUpper[c] ELSE c

\* s.lower()
Lower(s) == [j \in 1..Len(s) |-> LowerChar(s[j])]

Upper(s) == [j \in 1..Len(s) |-> UpperChar(s[j])]

\* s.strip()
Strip(s) ==
    LET keep == {j \in 1..Len(s) : s[j] \notin Whitespace}
    IN  IF keep = {} THEN <<>>
        ELSE LET lo == CHOOSE j \in keep : \A k \in keep : j <= k
                 hi == CHOOSE j \in keep : \A k \in keep : k <= j
             IN  SubSeq(s, lo, hi)

\* the positions at which sub occurs in s
Occurrences(sub, s) ==
    {j \in 1..(Len(s) - Len(sub) + 1) : SubSeq(s, j, j + Len(sub) - 1) = sub}

\* sub in s
Contains(sub, s) == Occurrences(sub, s) # {}

\* s.split(sep, 1), for s that contains sep
SplitOnce(s, sep) ==
    LET at == CHOOSE j \in Occurrences(sep, s) :
                  \A k \in Occurrences(sep, s) : j <= k
    IN  <<SubSeq(s, 1, at - 1), SubSeq(s, at + Len(sep), Len(s))>>

DotDot == <<".", ".">>

\* `x or None` for a character sequence x
StrOrNone(s) == IF s = <<>> THEN None ELSE PyStr(s)

\* _interpret_date_range returning the two parts in the wrong order
InterpretDateRangeSwapped(date_range) ==
    IF ~Truthy(date_range) THEN <<None, None>>
    ELSE IF Contains(DotDot, date_range.v)
         THEN LET parts == SplitOnce(date_range.v, DotDot)
              IN  <<StrOrNone(Strip(parts[2])), StrOrNone(Strip(parts[1]))>>
         ELSE <<None, None>>

\* _interpret_date_range: the pair <<date_from, date_to>>
InterpretDateRange(date_range) ==
    IF ~Truthy(date_range) THEN <<None, None>>
    ELSE IF Contains(DotDot, date_range.v)
         THEN LET parts == SplitOnce(date_range.v, DotDot)
              IN  <<StrOrNone(Strip(parts[1])), StrOrNone(Strip(parts[2]))>>
         ELSE <<None, None>>

-----------------------------------------------------------------------------
(* Constants and string literals of the router *)

\* _TRIM_LIMIT
TRIM_LIMIT == 15

\* _TOP_N_MAX
TOP_N_MAX == 15

\* the default of `intent.top_n or 5`
TOP_N_DEFAULT == 5

S_summary == <<"s","u","m","m","a","r","y">>
S_overview == <<"o","v","e","r","v","i","e","w">>
S_kpis == <<"k","p","i","s">>
S_revenue_summary == <<"r","e","v","e","n","u","e","_","s","u","m","m","a","r","y">>
S_total_revenue == <<"t","o","t","a","l","_","r","e","v","e","n","u","e">>
S_revenue == <<"r","e","v","e","n","u","e">>
S_metrics_by_category == <<"m","e","t","r","i","c","s","_","b","y","_","c","a","t","e","g","o","r","y">>
S_revenue_by_category == <<"r","e","v","e","n","u","e","_","b","y","_","c","a","t","e","g","o","r","y">>
S_category_revenue == <<"c","a","t","e","g","o","r","y","_","r","e","v","e","n","u","e">>
S_revenue_per_category == <<"r","e","v","e","n","u","e","_","p","e","r","_","c","a","t","e","g","o","r","y">>
S_metrics_by_payment == <<"m","e","t","r","i","c","s","_","b","y","_","p","a","y","m","e","n","t">>
S_revenue_by_payment == <<"r","e","v","e","n","u","e","_","b","y","_","p","a","y","m","e","n","t">>
S_payment_revenue == <<"p","a","y","m","e","n","t","_","r","e","v","e","n","u","e">>
S_revenue_per_payment == <<"r","e","v","e","n","u","e","_","p","e","r","_","p","a","y","m","e","n","t">>
S_by_payment == <<"b","y","_","p","a","y","m","e","n","t">>
S_top_customers == <<"t","o","p","_","c","u","s","t","o","m","e","r","s">>
S_top_products == <<"t","o","p","_","p","r","o","d","u","c","t","s">>
S_store == <<"s","t","o","r","e">>
S_location == <<"l","o","c","a","t","i","o","n">>

\* summary_like
SummaryLike ==
    {S_summary, S_overview, S_kpis, S_revenue_summary, S_total_revenue, S_revenue}

\* the by-category synonym set
CategoryLike ==
    {S_metrics_by_category, S_revenue_by_category, S_category_revenue,
     S_revenue_per_category}

\* PaymentLike without the synonym by_payment
PaymentLikeShort ==
    {S_metrics_by_payment, S_revenue_by_payment, S_payment_revenue,
     S_revenue_per_payment}

\* the by-payment synonym set
PaymentLike ==
    {S_metrics_by_payment, S_revenue_by_payment, S_payment_revenue,
     S_revenue_per_payment, S_by_payment}

\* supported_metrics
SupportedMetrics ==
    PyList(<<PyStr(S_summary), PyStr(S_top_customers), PyStr(S_top_products),
             PyStr(S_metrics_by_category), PyStr(S_metrics_by_payment)>>)

-----------------------------------------------------------------------------
(* route_intent, customer branch *)

\* CustomerNoData with `or` between the two tests in place of `and`
CustomerNoDataEither(p) ==
    \/ DOMAIN p = {}
    \/ ~Truthy(Get(p, "transactions"))
    \/ IsNone(Get(p, "summary"))

\* the no-data test on the fetched customer payload
CustomerNoData(p) ==
    \/ DOMAIN p = {}
    \/ /\ ~Truthy(Get(p, "transactions"))
       /\ IsNone(Get(p, "summary"))

\* TrimCustomer with the truncation flag computed as total >= _TRIM_LIMIT
TrimCustomerAtLimit(p) ==
    IF IsList(Get(p, "transactions"))
    THEN LET transactions == p["transactions"].v
             total == Len(transactions)
             p1 == DictSet(p, "transactions", PyList(Take(transactions, TRIM_LIMIT)))
             p2 == DictSet(p1, "transactionCount", PyInt(total))
             p3 == DictSet(p2, "transactionsLimit", PyInt(TRIM_LIMIT))
         IN  DictSet(p3, "transactionsTruncated", PyBool(total >= TRIM_LIMIT))
    ELSE p

\* the trimming of payload["transactions"] and its bookkeeping fields
TrimCustomer(p) ==
    IF IsList(Get(p, "transactions"))
    THEN LET transactions == p["transactions"].v
             total == Len(transactions)
             p1 == DictSet(p, "transactions", PyList(Take(transactions, TRIM_LIMIT)))
             p2 == DictSet(p1, "transactionCount", PyInt(total))
             p3 == DictSet(p2, "transactionsLimit", PyInt(TRIM_LIMIT))
         IN  DictSet(p3, "transactionsTruncated", PyBool(total > TRIM_LIMIT))
    ELSE p

\* the data returned for a customer intent once the fetch has returned p
CustomerResult(i, p) ==
    IF CustomerNoData(p)
    THEN [status |-> Lit("no_data"),
          reason |-> Lit("no_customer_transactions"),
          customerId |-> i.customer_id]
    ELSE TrimCustomer(p)

-----------------------------------------------------------------------------
(* route_intent, product branch *)

\* payload.get("summary") or {}
SummaryOf(p) ==
    IF Truthy(Get(p, "summary")) THEN Get(p, "summary") ELSE PyDict(EmptyDict)

\* TrimmedSummary with storeCount taken from the list after trimming
TrimmedSummaryCountAfterTrim(p) ==
    LET summary == SummaryOf(p)
    IN  IF IsDict(summary)
        THEN LET stores == Get(summary.v, "stores")
             IN  IF IsList(stores)
                 THEN LET kept == Take(stores.v, TRIM_LIMIT)
                          s1 == DictSet(summary.v, "storeCount", PyInt(Len(kept)))
                          s2 == DictSet(s1, "storesTruncated",
                                        PyBool(Len(stores.v) > TRIM_LIMIT))
                          s3 == DictSet(s2, "storesLimit", PyInt(TRIM_LIMIT))
                      IN  PyDict(DictSet(s3, "stores", PyList(kept)))
                 ELSE summary
        ELSE summary

\* trimmed_summary
TrimmedSummary(p) ==
    LET summary == SummaryOf(p)
    IN  IF IsDict(summary)
        THEN LET stores == Get(summary.v, "stores")
             IN  IF IsList(stores)
                 THEN LET total_stores == Len(stores.v)
                          s1 == DictSet(summary.v, "storeCount", PyInt(total_stores))
                          s2 == DictSet(s1, "storesTruncated",
                                        PyBool(total_stores > TRIM_LIMIT))
                          s3 == DictSet(s2, "storesLimit", PyInt(TRIM_LIMIT))
                      IN  PyDict(DictSet(s3, "stores",
                                         PyList(Take(stores.v, TRIM_LIMIT))))
                 ELSE summary
        ELSE summary

\* ProductNoData without the test of the three aggregates
ProductNoDataEmptyOnly(p) ==
    LET trimmed_summary == TrimmedSummary(p)
    IN  \/ DOMAIN p = {}
        \/ IsNone(trimmed_summary)
        \/ (IsDict(trimmed_summary) /\ DOMAIN trimmed_summary.v = {})

\* the no-data test of the product branch
ProductNoData(p) ==
    LET trimmed_summary == TrimmedSummary(p)
    IN  \/ DOMAIN p = {}
        \/ IsNone(trimmed_summary)
        \/ (IsDict(trimmed_summary) /\ DOMAIN trimmed_summary.v = {})
        \/ /\ IsDict(trimmed_summary)
           /\ ~Truthy(Get(trimmed_summary.v, "transactionCount"))
           /\ ~Truthy(Get(trimmed_summary.v, "totalQuantity"))
           /\ ~Truthy(Get(trimmed_summary.v, "totalRevenue"))

\* SlimPayload built on a copy of the whole fetched payload
SlimPayloadFromCopy(p) ==
    LET base == DictSet(DictSet(DictSet(p, "productId", Get(p, "productId")),
                                "summary", TrimmedSummary(p)),
                        "filters", Get(p, "filters"))
    IN  IF IsList(Get(p, "transactions"))
        THEN LET transactions == p["transactions"].v
                 total == Len(transactions)
                 p1 == DictSet(base, "transactions",
                               PyList(Take(transactions, TRIM_LIMIT)))
                 p2 == DictSet(p1, "transactionCount", PyInt(total))
                 p3 == DictSet(p2, "transactionsLimit", PyInt(TRIM_LIMIT))
             IN  DictSet(p3, "transactionsTruncated", PyBool(total > TRIM_LIMIT))
        ELSE base

\* slim_payload with transactionCount taken from the list after trimming
SlimPayloadCountKept(p) ==
    LET base == [productId |-> Get(p, "productId"),
                 summary |-> TrimmedSummary(p),
                 filters |-> Get(p, "filters")]
    IN  IF IsList(Get(p, "transactions"))
        THEN LET transactions == Take(p["transactions"].v, TRIM_LIMIT)
                 total == Len(transactions)
                 p1 == DictSet(base, "transactions", PyList(transactions))
                 p2 == DictSet(p1, "transactionCount", PyInt(total))
                 p3 == DictSet(p2, "transactionsLimit", PyInt(TRIM_LIMIT))
             IN  DictSet(p3, "transactionsTruncated",
                         PyBool(Len(p["transactions"].v) > TRIM_LIMIT))
        ELSE base

\* slim_payload
SlimPayload(p) ==
    LET base == [productId |-> Get(p, "productId"),
                 summary |-> TrimmedSummary(p),
                 filters |-> Get(p, "filters")]
    IN  IF IsList(Get(p, "transactions"))
        THEN LET transactions == p["transactions"].v
                 total == Len(transactions)
                 p1 == DictSet(base, "transactions",
                               PyList(Take(transactions, TRIM_LIMIT)))
                 p2 == DictSet(p1, "transactionCount", PyInt(total))
                 p3 == DictSet(p2, "transactionsLimit", PyInt(TRIM_LIMIT))
             IN  DictSet(p3, "transactionsTruncated", PyBool(total > TRIM_LIMIT))
        ELSE base

\* the data returned for a product intent once the fetch has returned p
ProductResult(i, p) ==
    IF ProductNoData(p)
    THEN [status |-> Lit("no_data"),
          reason |-> Lit("no_product_transactions"),
          productId |-> i.product_id]
    ELSE SlimPayload(p)

-----------------------------------------------------------------------------
(* route_intent, business_metric branch *)

\* NormalizedMetric without the strip()
NormalizedMetricNoStrip(i) ==
    Lower(IF Truthy(i.metric) THEN i.metric.v ELSE <<>>)

\* metric = (intent.metric or "").strip().lower()
NormalizedMetric(i) ==
    Lower(Strip(IF Truthy(i.metric) THEN i.metric.v ELSE <<>>))

\* BusinessBranch with the known-unsupported test looking for "store" only
BusinessBranchStoreOnly(i) ==
    LET metric == NormalizedMetric(i)
    IN  IF metric = <<>> THEN "unspecified"
        ELSE IF Contains(S_store, metric) THEN "not_supported"
        ELSE IF metric \in SummaryLike THEN "get_metrics_summary"
        ELSE IF metric \in CategoryLike THEN "get_metrics_by_category"
        ELSE IF metric \in PaymentLike THEN "get_metrics_by_payment"
        ELSE IF metric = S_top_customers THEN "get_top_customers"
        ELSE IF metric \in {S_top_products} THEN "get_top_products"
        ELSE "not_recognized"

\* the arm of the if-chain that a business_metric intent takes
BusinessBranch(i) ==
    LET metric == NormalizedMetric(i)
    IN  IF metric = <<>> THEN "unspecified"
        ELSE IF Contains(S_store, metric) \/ Contains(S_location, metric)
             THEN "not_supported"
        ELSE IF metric \in SummaryLike THEN "get_metrics_summary"
        ELSE IF metric \in CategoryLike THEN "get_metrics_by_category"
        ELSE IF metric \in PaymentLike THEN "get_metrics_by_payment"
        ELSE IF metric = S_top_customers THEN "get_top_customers"
        ELSE IF metric \in {S_top_products} THEN "get_top_products"
        ELSE "not_recognized"

\* limit = min(intent.top_n or 5, _TOP_N_MAX)
TopLimit(i) ==
    Min(IF Truthy(i.top_n) THEN i.top_n.v ELSE TOP_N_DEFAULT, TOP_N_MAX)

\* AnnotateLimit with the test top_n >= _TOP_N_MAX
AnnotateLimitAtCap(i, p) ==
    IF ~IsNone(i.top_n) /\ i.top_n.v >= TOP_N_MAX
    THEN DictSet(DictSet(p, "limitRequested", i.top_n),
                 "limitApplied", PyInt(TOP_N_MAX))
    ELSE p

\* the limitRequested / limitApplied annotation of a top-N payload
AnnotateLimit(i, p) ==
    IF ~IsNone(i.top_n) /\ i.top_n.v > TOP_N_MAX
    THEN DictSet(DictSet(p, "limitRequested", i.top_n),
                 "limitApplied", PyInt(TOP_N_MAX))
    ELSE p

\* BusinessStatus echoing the normalized metric as requestedMetric
BusinessStatusNormalized(i) ==
    CASE BusinessBranch(i) = "unspecified" ->
            [status |-> Lit("ambiguous_intent"),
             reason |-> Lit("business_metric_unspecified"),
             supportedMetrics |-> SupportedMetrics]
      [] BusinessBranch(i) = "not_supported" ->
            [status |-> Lit("unsupported_metric"),
             reason |-> Lit("metric_not_supported"),
             requestedMetric |-> PyStr(NormalizedMetric(i)),
             supportedMetrics |-> SupportedMetrics]
      [] OTHER ->
            [status |-> Lit("unsupported_metric"),
             reason |-> Lit("metric_not_recognized"),
             requestedMetric |-> PyStr(NormalizedMetric(i)),
             supportedMetrics |-> SupportedMetrics]

\* the status payloads the business_metric branch returns without a fetch
BusinessStatus(i) ==
    CASE BusinessBranch(i) = "unspecified" ->
            [status |-> Lit("ambiguous_intent"),
             reason |-> Lit("business_metric_unspecified"),
             supportedMetrics |-> SupportedMetrics]
      [] BusinessBranch(i) = "not_supported" ->
            [status |-> Lit("unsupported_metric"),
             reason |-> Lit("metric_not_supported"),
             requestedMetric |-> i.metric,
             supportedMetrics |-> SupportedMetrics]
      [] OTHER ->
            [status |-> Lit("unsupported_metric"),
             reason |-> Lit("metric_not_recognized"),
             requestedMetric |-> i.metric,
             supportedMetrics |-> SupportedMetrics]

-----------------------------------------------------------------------------
(* route_intent as a whole: the part before the data-service call, the     *)
(* call, and the part after it                                             *)

TopOps == {"get_top_customers", "get_top_products"}

\* FetchOp with the product branch testing customer_id
FetchOpWrongId(i) ==
    CASE i.intent = "customer" ->
            IF IsNone(i.customer_id) THEN "none" ELSE "get_customer"
      [] i.intent = "product" ->
            IF IsNone(i.customer_id) THEN "none" ELSE "get_product"
      [] i.intent = "business_metric" ->
            IF BusinessBranch(i) \in {"unspecified", "not_supported", "not_recognized"}
            THEN "none" ELSE BusinessBranch(i)
      [] OTHER -> "none"

\* the data_service function route_intent calls for intent i ("none": it
\* returns without calling any)
FetchOp(i) ==
    CASE i.intent = "customer" ->
            IF IsNone(i.customer_id) THEN "none" ELSE "get_customer"
      [] i.intent = "product" ->
            IF IsNone(i.product_id) THEN "none" ELSE "get_product"
      [] i.intent = "business_metric" ->
            IF BusinessBranch(i) \in {"unspecified", "not_supported", "not_recognized"}
            THEN "none" ELSE BusinessBranch(i)
      [] OTHER -> "none"

\* the keyword arguments of that call
FetchKwargs(i) ==
    LET d == InterpretDateRange(i.date_range)
        dates == [date_from |-> d[1], date_to |-> d[2]]
    IN  CASE FetchOp(i) = "get_customer" ->
                DictSet(dates, "customer_id", i.customer_id)
          [] FetchOp(i) = "get_product" ->
                DictSet(dates, "product_id", i.product_id)
          [] FetchOp(i) \in TopOps ->
                DictSet(dates, "limit", PyInt(TopLimit(i)))
          [] OTHER -> dates

\* the data returned when no call is made
EarlyResult(i) ==
    CASE i.intent = "customer" ->
            [status |-> Lit("ambiguous_intent"),
             reason |-> Lit("customer_id_missing")]
      [] i.intent = "product" ->
            [status |-> Lit("ambiguous_intent"),
             reason |-> Lit("product_id_missing")]
      [] OTHER -> BusinessStatus(i)

\* The dict objects of a branch once it has run.  `fetched` is the object the
\* data service returned; dict(...) makes a second object, and the item
\* assignments that follow write to the object the local name is bound to.

\* the customer branch with the item assignments made on the fetched dict
CustomerObjectsInPlace(p) ==
    IF ~CustomerNoData(p) /\ IsList(Get(p, "transactions"))
    THEN LET heap == [fetched |-> p, copy |-> p]
             name == "fetched"
         IN  [heap EXCEPT ![name] = TrimCustomer(heap[name])]
    ELSE [fetched |-> p, copy |-> p]

\* the customer branch: payload = dict(payload), then payload[...] = ...
CustomerObjects(p) ==
    IF ~CustomerNoData(p) /\ IsList(Get(p, "transactions"))
    THEN LET heap == [fetched |-> p, copy |-> p]
             name == "copy"
         IN  [heap EXCEPT ![name] = TrimCustomer(heap[name])]
    ELSE [fetched |-> p, copy |-> p]

\* the product branch: trimmed_summary = dict(summary), then
\* trimmed_summary[...] = ...; the fetched dict holds the summary object
ProductObjects(p) ==
    LET heap == [summary |-> SummaryOf(p), copy |-> SummaryOf(p)]
        name == "copy"
        after == [heap EXCEPT ![name] = TrimmedSummary(p)]
    IN  [fetched |-> IF Truthy(Get(p, "summary"))
                     THEN DictSet(p, "summary", after.summary) ELSE p,
         copy |-> after.copy]

\* the top-N branches: payload = dict(payload), then payload[...] = ...
TopObjects(i, p) ==
    LET heap == [fetched |-> p, copy |-> p]
        name == "copy"
    IN  [heap EXCEPT ![name] = AnnotateLimit(i, heap[name])]

\* the dict the data service returned, as route_intent leaves it
FetchedAfter(i, p) ==
    CASE i.intent = "customer" -> CustomerObjects(p).fetched
      [] i.intent = "product" -> ProductObjects(p).fetched
      [] FetchOp(i) \in TopOps -> TopObjects(i, p).fetched
      [] OTHER -> p

\* the data returned once the call has returned payload p
LateResult(i, p) ==
    CASE i.intent = "customer" -> CustomerResult(i, p)
      [] i.intent = "product" -> ProductResult(i, p)
      [] FetchOp(i) \in TopOps -> AnnotateLimit(i, p)
      [] OTHER -> p

-----------------------------------------------------------------------------
(* Inputs: the intents handed to route_intent and the payloads the data    *)
(* service can answer with                                                 *)

\* the longest transaction / store list a fetched payload carries
MaxLen == 17

\* the largest top_n of the consecutive range tried around the cap
MaxTopN == 17

S_churn_rate == <<"c","h","u","r","n","_","r","a","t","e">>
S_stores_list == <<"s","t","o","r","e","s","_","l","i","s","t">>
S_transaction_history == <<"t","r","a","n","s","a","c","t","i","o","n","_","h","i","s","t","o","r","y">>
Pre_store == <<"s","t","o","r","e","_">>
Suf_location == <<"_","l","o","c","a","t","i","o","n">>
Suf_x == <<"_","x">>
D_start == <<"2","0","2","4","-","0","1","-","0","1">>
D_end == <<"2","0","2","4","-","1","2","-","3","1">>
D_last == <<"l","a","s","t">>
D_week == <<"w","e","e","k">>

DateRanges ==
    {None,
     PyStr(<<>>),
     PyStr(<<" ", " ", " ">>),
     PyStr(D_start \o DotDot \o D_end),
     PyStr(D_start),
     PyStr(<<" ">> \o D_start \o <<" ">> \o DotDot \o <<" ">>),
     PyStr(D_last \o DotDot \o D_week)}

BusinessDateRanges ==
    {None,
     PyStr(D_start \o DotDot \o D_end),
     PyStr(<<" ">> \o D_start \o <<" ">> \o DotDot \o <<" ">>)}

MetricCores ==
    {S_summary, S_overview, S_kpis, S_revenue_summary, S_total_revenue, S_revenue,
     S_metrics_by_category, S_revenue_by_category, S_category_revenue,
     S_revenue_per_category,
     S_metrics_by_payment, S_revenue_by_payment, S_payment_revenue,
     S_revenue_per_payment, S_by_payment,
     S_top_customers, S_top_products, S_store, S_location, S_churn_rate, <<>>}

\* metric strings: a core name, optionally with a prefix and a suffix around
\* it, either as it is or in upper case and padded with whitespace
BusinessMetrics ==
    {None} \cup
    {PyStr(IF dressed THEN <<" ", "\t">> \o Upper(pre \o core \o suf) \o <<"\n">>
                      ELSE pre \o core \o suf) :
        dressed \in BOOLEAN,
        pre \in {<<>>, Pre_store},
        core \in MetricCores,
        suf \in {<<>>, Suf_location, Suf_x}}

EntityMetrics == {None, PyStr(S_summary), PyStr(S_transaction_history), PyStr(S_stores_list)}

TopNs ==
    {None} \cup
    {PyInt(n) : n \in {-1, 0, 1, TOP_N_DEFAULT, 10, 50} \cup ((TOP_N_MAX - 1)..MaxTopN)}

CustomerIds == {PyInt(1), PyInt(999)}

ProductIds == {Lit("A"), Lit("B")}

MkIntent(kind, cid, pid, m, n, d) ==
    [intent |-> kind, customer_id |-> cid, product_id |-> pid,
     metric |-> m, top_n |-> n, date_range |-> d]

\* the validated Intent values route_intent is called with
Intents ==
    {MkIntent("customer", None, pid, m, n, d) :
        pid \in {None, Lit("A")}, m \in EntityMetrics, n \in TopNs, d \in DateRanges}
    \cup
    {MkIntent("customer", cid, None, m, None, d) :
        cid \in CustomerIds, m \in {None, PyStr(S_transaction_history)}, d \in DateRanges}
    \cup
    {MkIntent("product", cid, None, m, n, d) :
        cid \in {None, PyInt(1)}, m \in EntityMetrics, n \in TopNs, d \in DateRanges}
    \cup
    {MkIntent("product", None, pid, m, None, d) :
        pid \in ProductIds, m \in {None, PyStr(S_stores_list)}, d \in DateRanges}
    \cup
    {MkIntent("business_metric", None, None, m, n, d) :
        m \in BusinessMetrics, n \in TopNs, d \in BusinessDateRanges}

Digits == <<"0", "1", "2", "3", "4", "5", "6", "7", "8", "9">>

\* fetched rows and store names, pairwise distinct
Rows(n) == [j \in 1..n |-> PyDict([id |-> PyInt(j)])]
Stores(n) == [j \in 1..n |-> PyStr(<<"S", Digits[((j \div 10) % 10) + 1], Digits[(j % 10) + 1]>>)]

AllLens == 0..MaxLen
FewLens == {0, 2, MaxLen}

\* "filters": {"from": date_from, "to": date_to}, as the API echoes them
Filters(c) == PyDict([from |-> c.kwargs.date_from, to |-> c.kwargs.date_to])

TxFields(lens) ==
    {EmptyDict, [transactions |-> None]}
        \cup {[transactions |-> PyList(Rows(n))] : n \in lens}

\* answers of GET /api/customers/<id>
CustomerPayloads(c) ==
    {head @@ tx @@ sm :
        head \in {EmptyDict, [customerId |-> c.kwargs.customer_id, filters |-> Filters(c)]},
        tx \in TxFields(AllLens),
        sm \in {EmptyDict, [summary |-> None],
                [summary |-> PyDict([transactionCount |-> PyInt(2), totalSpend |-> PyInt(100)])]}}

OptField(k) == {EmptyDict, k :> PyInt(0), k :> PyInt(5)}

CountFields ==
    {a @@ b @@ c :
        a \in OptField("transactionCount"),
        b \in OptField("totalQuantity"),
        c \in OptField("totalRevenue")}

FullCounts ==
    [transactionCount |-> PyInt(5), totalQuantity |-> PyInt(10), totalRevenue |-> PyInt(100)]

StoresFields(lens) ==
    {EmptyDict, [uniqueCustomers |-> PyInt(3)]}
        \cup {[stores |-> PyList(Stores(n)), storeCount |-> PyInt(n),
               uniqueCustomers |-> PyInt(3)] : n \in lens}

ProductHead(c) ==
    [productId |-> c.kwargs.product_id, filters |-> Filters(c), extra |-> PyInt(7)]

\* answers of GET /api/products/<id>
ProductPayloads(c) ==
    {ProductHead(c) @@ tx @@ [summary |-> PyDict(cnt @@ st)] :
        tx \in TxFields(FewLens), cnt \in CountFields, st \in StoresFields(FewLens)}
    \cup
    {head @@ tx @@ [summary |-> PyDict(FullCounts @@ st)] :
        head \in {EmptyDict, ProductHead(c)},
        tx \in TxFields(FewLens), st \in StoresFields(AllLens)}
    \cup
    {head @@ tx @@ [summary |-> PyDict(FullCounts @@ st)] :
        head \in {EmptyDict, ProductHead(c)},
        tx \in TxFields(AllLens), st \in StoresFields(FewLens)}
    \cup
    {head @@ tx @@ sm :
        head \in {EmptyDict, ProductHead(c)},
        tx \in TxFields(FewLens),
        sm \in {EmptyDict, [summary |-> None], [summary |-> PyDict(EmptyDict)]}}

\* answers of GET /api/metrics/summary
SummaryPayloads(c) ==
    {EmptyDict, [filters |-> Filters(c), summary |-> None]}
        \cup {[filters |-> Filters(c),
               summary |-> PyDict([transactionCount |-> PyInt(n),
                                   totalRevenue |-> PyInt(1000)])] : n \in {0, 50}}

\* answers of GET /api/metrics/by_category and /api/metrics/by_payment
BreakdownPayloads(c) ==
    {EmptyDict} \cup {[filters |-> Filters(c), metrics |-> PyList(Rows(n))] : n \in {0, 3}}

\* answers of GET /api/metrics/top_customers and /api/metrics/top_products
TopPayloads(c) ==
    LET applied == IF c.kwargs.limit.v < 1 THEN 1 ELSE Min(c.kwargs.limit.v, 15)
    IN  {EmptyDict} \cup
        {[filters |-> Filters(c), limit |-> PyInt(applied), metrics |-> PyList(Rows(n))] :
            n \in {0, applied}}

\* the well-formed answers the data service can give to call c
Responses(c) ==
    CASE c.op = "get_customer" -> CustomerPayloads(c)
      [] c.op = "get_product" -> ProductPayloads(c)
      [] c.op = "get_metrics_summary" -> SummaryPayloads(c)
      [] c.op \in {"get_metrics_by_category", "get_metrics_by_payment"} -> BreakdownPayloads(c)
      [] c.op \in TopOps -> TopPayloads(c)

-----------------------------------------------------------------------------
(* The data service: one get_* call as an HTTP exchange *)

\* params, as the get_* functions fill it
\* the query parameters with "to" taken from date_from
RequestParamsToFromFrom(c) ==
    LET p0 == IF c.op \in TopOps THEN [limit |-> c.kwargs.limit] ELSE EmptyDict
        p1 == IF Truthy(c.kwargs.date_from)
              THEN DictSet(p0, "from", c.kwargs.date_from) ELSE p0
    IN  IF Truthy(c.kwargs.date_from) THEN DictSet(p1, "to", c.kwargs.date_from) ELSE p1

RequestParams(c) ==
    LET p0 == IF c.op \in TopOps THEN [limit |-> c.kwargs.limit] ELSE EmptyDict
        p1 == IF Truthy(c.kwargs.date_from)
              THEN DictSet(p0, "from", c.kwargs.date_from) ELSE p0
    IN  IF Truthy(c.kwargs.date_to) THEN DictSet(p1, "to", c.kwargs.date_to) ELSE p1

\* the path of the URL, after API_BASE_URL
RequestPath(c) ==
    CASE c.op = "get_customer" -> <<"/api/customers/", c.kwargs.customer_id>>
      [] c.op = "get_product" -> <<"/api/products/", c.kwargs.product_id>>
      [] c.op = "get_metrics_summary" -> <<"/api/metrics/summary">>
      [] c.op = "get_metrics_by_category" -> <<"/api/metrics/by_category">>
      [] c.op = "get_metrics_by_payment" -> <<"/api/metrics/by_payment">>
      [] c.op = "get_top_customers" -> <<"/api/metrics/top_customers">>
      [] c.op = "get_top_products" -> <<"/api/metrics/top_products">>

\* requests.get(url, params=params or None, timeout=10); the top-N functions
\* pass params itself
HttpRequest(c) ==
    [path |-> RequestPath(c),
     params |-> IF c.op \notin TopOps /\ DOMAIN RequestParams(c) = {}
                THEN None ELSE PyDict(RequestParams(c)),
     timeout |-> 10]

NoRequest == [path |-> <<>>, params |-> None, timeout |-> 0]

NoHttp == [kind |-> "none"]

\* a response with resp.ok and a body that resp.json() decodes to p
OkResponse(p) == [kind |-> "response", ok |-> TRUE, json |-> TRUE, body |-> p]

\* the ways the exchange can go wrong: a non-OK status (with or without a
\* JSON body), an OK status with a body that is not JSON, and requests.get
\* itself raising (no connection, or the timeout expiring)
HttpFailures ==
    {[kind |-> "response", ok |-> FALSE, json |-> TRUE, body |-> EmptyDict],
     [kind |-> "response", ok |-> FALSE, json |-> FALSE, body |-> EmptyDict],
     [kind |-> "response", ok |-> TRUE, json |-> FALSE, body |-> EmptyDict],
     [kind |-> "exception", name |-> "requests.ConnectionError"],
     [kind |-> "exception", name |-> "requests.Timeout"]}

\* _handle_response(resp): the value returned, or the exception raised
HandleResponse(resp) ==
    IF ~resp.ok THEN [raised |-> "DataServiceError", value |-> EmptyDict]
    ELSE IF resp.json THEN [raised |-> "none", value |-> resp.body]
    ELSE [raised |-> "DataServiceError", value |-> EmptyDict]

\* a get_* function, given what requests.get did (o): an exception of
\* requests.get is not caught
DataServiceCall(o) ==
    IF o.kind = "exception"
    THEN [raised |-> o.name, value |-> EmptyDict]
    ELSE HandleResponse(o)

-----------------------------------------------------------------------------
(* The state machine: one invocation of route_intent *)

NoIntent == MkIntent("none", None, None, None, None, None)

\* a RoutedResult that loses the intent
RoutedResultBlankIntent(i, d) == [intent |-> NoIntent, data |-> d]

\* RoutedResult(intent=..., data=...)
RoutedResult(i, d) == [intent |-> i, data |-> d]

NoRouted == RoutedResult(NoIntent, EmptyDict)

\* Intent objects whose kind is outside the Literal, as only
\* Intent.model_construct can build them
UnvalidatedIntents ==
    {MkIntent(k, cid, None, m, None, None) :
        k \in {"order", ""}, cid \in {None, PyInt(1)}, m \in {None, PyStr(S_summary)}}

RouterInit ==
    /\ pc = "idle"
    /\ intent = NoIntent
    /\ calls = <<>>
    /\ request = NoRequest
    /\ http = NoHttp
    /\ payload = EmptyDict
    /\ result = EmptyDict
    /\ routedResult = NoRouted
    /\ raised = "none"

\* the /chat endpoint before a request
NoResponse == [status |-> 0, body |-> EmptyDict]

ChatInit ==
    /\ stage = "idle"
    /\ stages = <<>>
    /\ userQuery = None
    /\ parsed = NoIntent
    /\ caught = "none"
    /\ response = NoResponse

\* parse_intent and Intent.model_validate before a call
NoOutcome == [kind |-> "none"]

ParserInit ==
    /\ llmText = None
    /\ candidate = None
    /\ validation = NoOutcome
    /\ parseOutcome = NoOutcome

\* the REST API before the table is loaded and before a request
NoApiRequest == [endpoint |-> "none"]

ApiInit ==
    /\ db = <<>>
    /\ apiRequest = NoApiRequest
    /\ apiResponse = NoResponse

Init == RouterInit /\ ChatInit /\ ParserInit /\ ApiInit

\* route_intent(i) up to its return or to its data-service call
RouteIntent(i) ==
    /\ pc = "idle"
    /\ intent' = i
    /\ IF FetchOp(i) = "none"
       THEN /\ pc' = "returned"
            /\ result' = EarlyResult(i)
            /\ routedResult' = RoutedResult(i, EarlyResult(i))
            /\ calls' = calls
            /\ request' = request
       ELSE /\ pc' = "fetching"
            /\ result' = result
            /\ routedResult' = routedResult
            /\ calls' = Append(calls, [op |-> FetchOp(i), kwargs |-> FetchKwargs(i)])
            /\ request' = HttpRequest([op |-> FetchOp(i), kwargs |-> FetchKwargs(i)])
    /\ UNCHANGED <<http, payload, raised>>

\* route_intent(i) for an intent kind outside the three branches
RouteUnsupportedKind(i) ==
    /\ pc = "idle"
    /\ intent' = i
    /\ pc' = "raised"
    /\ raised' = "RoutingError"
    /\ UNCHANGED <<calls, request, http, payload, result, routedResult>>

\* the data-service call returns p (_handle_response returns resp.json()) and
\* route_intent runs to its return
FetchReturns(p) ==
    /\ pc = "fetching"
    /\ http' = OkResponse(p)
    /\ payload' = FetchedAfter(intent, DataServiceCall(OkResponse(p)).value)
    /\ result' = LateResult(intent, DataServiceCall(OkResponse(p)).value)
    /\ routedResult' = RoutedResult(intent, LateResult(intent, DataServiceCall(OkResponse(p)).value))
    /\ pc' = "returned"
    /\ UNCHANGED <<intent, calls, request, raised>>

\* a failed fetch swallowed into a status payload
FetchFailsSwallowed(o) ==
    /\ pc = "fetching"
    /\ http' = o
    /\ result' = [status |-> Lit("no_data"), reason |-> Lit("no_customer_transactions")]
    /\ routedResult' = RoutedResult(intent, result')
    /\ pc' = "returned"
    /\ UNCHANGED <<intent, calls, request, payload, raised>>

\* a failed fetch tried again
FetchFailsRetried(o) ==
    /\ pc = "fetching"
    /\ http' = o
    /\ calls' = Append(calls, calls[Len(calls)])
    /\ UNCHANGED <<pc, intent, request, payload, result, routedResult, raised>>

\* the data-service call raises, and route_intent does not catch it
FetchFails(o) ==
    /\ pc = "fetching"
    /\ http' = o
    /\ raised' = DataServiceCall(o).raised
    /\ pc' = "raised"
    /\ UNCHANGED <<intent, calls, request, payload, result, routedResult>>

\* route_intent called on its own, as the tests call it
Next ==
    \/ pc = "idle" /\ (\E i \in Intents : RouteIntent(i)) /\ UNCHANGED <<chatVars, parserVars, apiVars>>
    \/ pc = "idle" /\ (\E i \in UnvalidatedIntents : RouteUnsupportedKind(i))
                   /\ UNCHANGED <<chatVars, parserVars, apiVars>>
    \/ pc = "fetching" /\ (\E p \in Responses(calls[Len(calls)]) : FetchReturns(p))
                       /\ UNCHANGED <<chatVars, parserVars, apiVars>>
    \/ pc = "fetching" /\ (\E o \in HttpFailures : FetchFails(o)) /\ UNCHANGED <<chatVars, parserVars, apiVars>>

Spec == Init /\ [][Next]_vars

-----------------------------------------------------------------------------
(* The /chat endpoint: parse intent, route intent, generate response *)

\* the values of the "query" field of the request body; None when the body
\* is not JSON or has no such field
Queries ==
    {None, PyInt(5), PyStr(<<>>), PyStr(<<" ", " ">>),
     PyStr(<<"h", "i">>), PyStr(<<" ", "h", "i", "\n">>)}

\* the Intent values parse_intent returns
ChatIntents ==
    {MkIntent("customer", None, None, None, None, None),
     MkIntent("customer", PyInt(1), None, None, None, PyStr(D_start \o DotDot \o D_end)),
     MkIntent("product", None, Lit("A"), None, None, None),
     MkIntent("business_metric", None, None, None, None, None),
     MkIntent("business_metric", None, None, PyStr(S_summary), None, None),
     MkIntent("business_metric", None, None, PyStr(S_churn_rate), None, None),
     MkIntent("business_metric", None, None, PyStr(S_top_customers), PyInt(50), None)}

\* the answers generate_response returns
Answers == {PyStr(<<"o", "k">>)}

\* the exceptions parse_intent raises
ParseErrors == {"IntentParsingError", "google.genai.errors.APIError"}

\* the exceptions generate_response raises
GenerateErrors == {"RuntimeError", "google.genai.errors.APIError"}

\* Intent.model_dump()
ModelDump(i) ==
    PyDict([intent |-> Lit(i.intent), customer_id |-> i.customer_id,
            product_id |-> i.product_id, metric |-> i.metric,
            top_n |-> i.top_n, date_range |-> i.date_range])

\* RoutedResult.to_dict() giving the data alone
ToDictDataOnly(r) == PyDict(r.data)

\* RoutedResult.to_dict()
ToDict(r) == PyDict([intent |-> ModelDump(r.intent), data |-> PyDict(r.data)])

\* jsonify(body), status
Respond(status, body) == [status |-> status, body |-> body]

\* the test of the "query" field without the strip
ValidQueryNoStrip(q) == q.t = "str" /\ q.v # <<>>

\* the test of the "query" field
ValidQuery(q) == q.t = "str" /\ Strip(q.v) # <<>>

\* a request without a usable query is refused
ChatBadRequest(q) ==
    /\ stage = "idle"
    /\ ~ValidQuery(q)
    /\ userQuery' = q
    /\ stage' = "done"
    /\ response' = Respond(400, [error |-> Lit("BadRequest"),
                                  message |-> Lit("Field 'query' (non-empty string) is required.")])
    /\ UNCHANGED <<stages, parsed, caught, routerVars>>

\* a request with a query: the handler calls parse_intent
ChatReceive(q) ==
    /\ stage = "idle"
    /\ ValidQuery(q)
    /\ userQuery' = PyStr(Strip(q.v))
    /\ stage' = "parsing"
    /\ stages' = <<"parse">>
    /\ UNCHANGED <<parsed, caught, response, routerVars>>

\* parse_intent raises and the handler routes a default Intent all the same
ParseFailsRoutesAnyway(e) ==
    /\ stage = "parsing"
    /\ caught' = e
    /\ RouteIntent(NoIntent)
    /\ stage' = "generating"
    /\ stages' = stages \o <<"route", "generate">>
    /\ UNCHANGED <<userQuery, parsed, response>>

\* parse_intent raises
ParseFails(e) ==
    /\ stage = "parsing"
    /\ caught' = e
    /\ stage' = "done"
    /\ response' = Respond(400, [error |-> Lit("IntentParsingFailed"), message |-> Lit(e)])
    /\ UNCHANGED <<stages, userQuery, parsed, routerVars>>

\* parse_intent returns i and the handler calls route_intent(i), which runs
\* to its data-service call, or to its return, and then the handler calls
\* generate_response
ParseReturns(i) ==
    /\ stage = "parsing"
    /\ parsed' = i
    /\ RouteIntent(i)
    /\ IF FetchOp(i) = "none"
       THEN stage' = "generating" /\ stages' = stages \o <<"route", "generate">>
       ELSE stage' = "routing" /\ stages' = stages \o <<"route">>
    /\ UNCHANGED <<userQuery, caught, response>>

\* the data-service call returns, route_intent returns, and the handler calls
\* generate_response
ChatFetchReturns(p) ==
    /\ stage = "routing"
    /\ FetchReturns(p)
    /\ stage' = "generating"
    /\ stages' = Append(stages, "generate")
    /\ UNCHANGED <<userQuery, parsed, caught, response>>

\* the data-service call raises through route_intent into the handler
ChatFetchFails(o) ==
    /\ stage = "routing"
    /\ FetchFails(o)
    /\ caught' = raised'
    /\ stage' = "done"
    /\ response' = Respond(400, [error |-> Lit("RoutingFailed"),
                                  message |-> Lit(raised'),
                                  intent |-> ModelDump(parsed)])
    /\ UNCHANGED <<stages, userQuery, parsed>>

\* generate_response raises and the handler gives the error alone
GenerateFailsNoData(e) ==
    /\ stage = "generating"
    /\ caught' = e
    /\ stage' = "done"
    /\ response' = Respond(502, [error |-> Lit("ResponseGenerationFailed"),
                                  message |-> Lit(e)])
    /\ UNCHANGED <<stages, userQuery, parsed, routerVars>>

\* generate_response raises
GenerateFails(e) ==
    /\ stage = "generating"
    /\ caught' = e
    /\ stage' = "done"
    /\ response' = Respond(502, [error |-> Lit("ResponseGenerationFailed"),
                                  message |-> Lit(e),
                                  intent |-> ModelDump(parsed),
                                  data |-> ToDict(routedResult)])
    /\ UNCHANGED <<stages, userQuery, parsed, routerVars>>

\* generate_response returns the answer a
GenerateReturns(a) ==
    /\ stage = "generating"
    /\ stage' = "done"
    /\ response' = Respond(200, [intent |-> ModelDump(parsed),
                                  data |-> ToDict(routedResult),
                                  answer |-> a])
    /\ UNCHANGED <<stages, userQuery, parsed, caught, routerVars>>

ChatNext ==
    \/ stage = "idle" /\ (\E q \in Queries : ChatBadRequest(q))
                      /\ UNCHANGED <<parserVars, apiVars>>
    \/ stage = "idle" /\ (\E q \in Queries : ChatReceive(q))
                      /\ UNCHANGED <<parserVars, apiVars>>
    \/ stage = "parsing" /\ (\E e \in ParseErrors : ParseFails(e))
                         /\ UNCHANGED <<parserVars, apiVars>>
    \/ stage = "parsing" /\ (\E i \in ChatIntents : ParseReturns(i))
                         /\ UNCHANGED <<parserVars, apiVars>>
    \/ stage = "routing" /\ (\E p \in Responses(calls[Len(calls)]) : ChatFetchReturns(p))
                         /\ UNCHANGED <<parserVars, apiVars>>
    \/ stage = "routing" /\ (\E o \in HttpFailures : ChatFetchFails(o))
                         /\ UNCHANGED <<parserVars, apiVars>>
    \/ stage = "generating" /\ (\E e \in GenerateErrors : GenerateFails(e))
                            /\ UNCHANGED <<parserVars, apiVars>>
    \/ stage = "generating" /\ (\E a \in Answers : GenerateReturns(a))
                            /\ UNCHANGED <<parserVars, apiVars>>

ChatSpec == Init /\ [][ChatNext]_vars

-----------------------------------------------------------------------------
(* Intent.model_validate and parse_intent *)

\* the value of the decimal digit c
DigitValue(c) == CHOOSE j \in 0..9 : Digits[j + 1] = c

RECURSIVE IntOfDigits(_)
\* int(s) for a string of decimal digits
IntOfDigits(s) ==
    IF s = <<>> THEN 0
    ELSE 10 * IntOfDigits(SubSeq(s, 1, Len(s) - 1)) + DigitValue(s[Len(s)])

\* s spells an integer in decimal digits
IsDigits(s) == s # <<>> /\ \A j \in 1..Len(s) : \E n \in 1..10 : s[j] = Digits[n]

\* the three values of the Literal of Intent.intent
IntentKinds == {"customer", "product", "business_metric"}

\* the field intent: required, one of the three literals
KindField(c) ==
    IF "intent" \notin DOMAIN c THEN [ok |-> FALSE]
    ELSE IF c.intent.t \in {"lit", "str"} /\ c.intent.v \in IntentKinds
         THEN [ok |-> TRUE, value |-> c.intent.v]
         ELSE [ok |-> FALSE]

\* a field Optional[int] = None: an int is kept, and a string of digits is
\* converted to the int it spells, as pydantic does outside strict mode
IntField(c, k) ==
    LET x == Get(c, k)
    IN  CASE x.t = "none" -> [ok |-> TRUE, value |-> None]
          [] x.t = "int" -> [ok |-> TRUE, value |-> x]
          [] x.t = "str" /\ IsDigits(x.v) -> [ok |-> TRUE, value |-> PyInt(IntOfDigits(x.v))]
          [] OTHER -> [ok |-> FALSE]

\* a field Optional[str] = None
StrField(c, k) ==
    LET x == Get(c, k)
    IN  IF x.t \in {"none", "str", "lit"} THEN [ok |-> TRUE, value |-> x]
        ELSE [ok |-> FALSE]

\* Intent.model_validate rejecting a customer or product without its id
ValidateRequiresId(x) ==
    IF ~IsDict(x) THEN [kind |-> "raised", error |-> "ValidationError"]
    ELSE LET c == x.v
             ok == /\ KindField(c).ok
                   /\ IntField(c, "customer_id").ok
                   /\ StrField(c, "product_id").ok
                   /\ StrField(c, "metric").ok
                   /\ IntField(c, "top_n").ok
                   /\ StrField(c, "date_range").ok
                   /\ (KindField(c).value = "customer" => ~IsNone(IntField(c, "customer_id").value))
                   /\ (KindField(c).value = "product" => ~IsNone(StrField(c, "product_id").value))
         IN  IF ok
             THEN [kind |-> "returned",
                   intent |-> MkIntent(KindField(c).value,
                                       IntField(c, "customer_id").value,
                                       StrField(c, "product_id").value,
                                       StrField(c, "metric").value,
                                       IntField(c, "top_n").value,
                                       StrField(c, "date_range").value)]
             ELSE [kind |-> "raised", error |-> "ValidationError"]

\* Intent.model_validate(x): the Intent, or ValidationError; keys that are
\* not fields of Intent are ignored
Validate(x) ==
    IF ~IsDict(x) THEN [kind |-> "raised", error |-> "ValidationError"]
    ELSE LET c == x.v
             ok == /\ KindField(c).ok
                   /\ IntField(c, "customer_id").ok
                   /\ StrField(c, "product_id").ok
                   /\ StrField(c, "metric").ok
                   /\ IntField(c, "top_n").ok
                   /\ StrField(c, "date_range").ok
         IN  IF ok
             THEN [kind |-> "returned",
                   intent |-> MkIntent(KindField(c).value,
                                       IntField(c, "customer_id").value,
                                       StrField(c, "product_id").value,
                                       StrField(c, "metric").value,
                                       IntField(c, "top_n").value,
                                       StrField(c, "date_range").value)]
             ELSE [kind |-> "raised", error |-> "ValidationError"]

\* a dict from the pairs <<key, value>> of ps whose value is given
\* (Absent marks a key left out)
Absent == [t |-> "absent"]

DictOf(ps) ==
    [k \in {ps[j][1] : j \in {j \in 1..Len(ps) : ps[j][2] # Absent}} |->
        ps[CHOOSE j \in 1..Len(ps) : ps[j][1] = k][2]]

\* the candidate structures handed to Intent.model_validate
Candidates ==
    {None, PyList(<<>>), PyStr(<<"c">>)} \cup
    {PyDict(DictOf(<<<<"intent", k>>, <<"customer_id", cid>>, <<"product_id", pid>>,
                     <<"metric", m>>, <<"top_n", n>>, <<"date_range", d>>,
                     <<"confidence", x>>>>)) :
        k \in {Absent, None, PyInt(1), Lit("customer"), Lit("product"),
               Lit("business_metric"), Lit("order"), Lit("Customer")},
        cid \in {Absent, None, PyInt(123), PyStr(<<"1", "2", "3">>),
                 PyStr(<<"a", "b", "c">>), PyList(<<>>)},
        pid \in {Absent, Lit("A"), PyInt(5)},
        m \in {None, PyStr(S_summary), PyInt(3)},
        n \in {Absent, PyInt(-1), PyStr(<<"5", "0">>)},
        d \in {Absent, PyStr(D_start \o DotDot \o D_end)},
        x \in {Absent, PyInt(1)}}

\* the texts of the language model that json.loads decodes, and what it
\* decodes them to
JsonDecoded ==
    [t \in {"{\"intent\": \"customer\", \"customer_id\": 123, \"product_id\": null, \"metric\": \"summary\", \"date_range\": null}",
            "{\"intent\": \"customer\"}",
            "{\"intent\": \"customer\", \"customer_id\": \"123\"}",
            "{\"intent\": \"invalid_type\", \"customer_id\": null, \"product_id\": null, \"metric\": null, \"date_range\": null}",
            "{\"customer_id\": 123}",
            "{\"intent\": \"product\", \"product_id\": 5}",
            "{}", "null", "[]", "\"customer\"", "123"} |->
        CASE t = "{\"intent\": \"customer\", \"customer_id\": 123, \"product_id\": null, \"metric\": \"summary\", \"date_range\": null}" ->
                PyDict([intent |-> Lit("customer"), customer_id |-> PyInt(123),
                        product_id |-> None, metric |-> PyStr(S_summary),
                        date_range |-> None])
          [] t = "{\"intent\": \"customer\"}" -> PyDict([intent |-> Lit("customer")])
          [] t = "{\"intent\": \"customer\", \"customer_id\": \"123\"}" ->
                PyDict([intent |-> Lit("customer"), customer_id |-> PyStr(<<"1", "2", "3">>)])
          [] t = "{\"intent\": \"invalid_type\", \"customer_id\": null, \"product_id\": null, \"metric\": null, \"date_range\": null}" ->
                PyDict([intent |-> Lit("invalid_type"), customer_id |-> None,
                        product_id |-> None, metric |-> None, date_range |-> None])
          [] t = "{\"customer_id\": 123}" -> PyDict([customer_id |-> PyInt(123)])
          [] t = "{\"intent\": \"product\", \"product_id\": 5}" ->
                PyDict([intent |-> Lit("product"), product_id |-> PyInt(5)])
          [] t = "{}" -> PyDict(EmptyDict)
          [] t = "null" -> None
          [] t = "[]" -> PyList(<<>>)
          [] t = "\"customer\"" -> PyStr(<<"c">>)
          [] t = "123" -> PyInt(123)]

\* the non-empty texts of the language model that are not JSON
NotJsonTexts ==
    {Lit("not valid json at all"), Lit(" "), Lit("{\"intent\": \"customer\""),
     Lit("{intent: customer}"), Lit("Here is the JSON: {\"intent\": \"customer\"}")}

\* resp.text when the model returned no text
EmptyTexts == {None, Lit("")}

\* the texts the language model returns
LlmTexts == EmptyTexts \cup NotJsonTexts \cup {Lit(t) : t \in DOMAIN JsonDecoded}

\* json.loads(text)
JsonLoads(text) ==
    IF text.v \in DOMAIN JsonDecoded
    THEN [ok |-> TRUE, value |-> JsonDecoded[text.v]]
    ELSE [ok |-> FALSE, value |-> None]

\* parse_intent letting the ValidationError through
ParseIntentUnwrapped(text) ==
    IF ~Truthy(text) THEN [kind |-> "raised", error |-> "IntentParsingError"]
    ELSE IF ~JsonLoads(text).ok THEN [kind |-> "raised", error |-> "IntentParsingError"]
    ELSE Validate(JsonLoads(text).value)

\* parse_intent once the model has returned text
ParseIntent(text) ==
    IF ~Truthy(text) THEN [kind |-> "raised", error |-> "IntentParsingError"]
    ELSE IF ~JsonLoads(text).ok THEN [kind |-> "raised", error |-> "IntentParsingError"]
    ELSE IF Validate(JsonLoads(text).value).kind = "raised"
         THEN [kind |-> "raised", error |-> "IntentParsingError"]
         ELSE Validate(JsonLoads(text).value)

\* Intent.model_validate(c), as the tests call it
ModelValidate(c) ==
    /\ validation = NoOutcome
    /\ parseOutcome = NoOutcome
    /\ candidate' = c
    /\ validation' = Validate(c)
    /\ UNCHANGED <<llmText, parseOutcome>>

\* parse_intent with the model returning text
ParseIntentCall(text) ==
    /\ validation = NoOutcome
    /\ parseOutcome = NoOutcome
    /\ llmText' = text
    /\ parseOutcome' = ParseIntent(text)
    /\ IF Truthy(text) /\ JsonLoads(text).ok
       THEN /\ candidate' = JsonLoads(text).value
            /\ validation' = Validate(JsonLoads(text).value)
       ELSE UNCHANGED <<candidate, validation>>

ParserNext ==
    \/ parseOutcome = NoOutcome /\ validation = NoOutcome
          /\ (\E c \in Candidates : ModelValidate(c))
          /\ UNCHANGED <<routerVars, chatVars, apiVars>>
    \/ parseOutcome = NoOutcome /\ validation = NoOutcome
          /\ (\E text \in LlmTexts : ParseIntentCall(text))
          /\ UNCHANGED <<routerVars, chatVars, apiVars>>

ParserSpec == Init /\ [][ParserNext]_vars

-----------------------------------------------------------------------------
(* The REST API over the transactions table (flask_app.py) and the loader     *)
(* that fills the table (load_csv_to_sqlite.py).  Amounts are in tenths.    *)

\* requested_limit when the parameter is absent or no integer
API_LIMIT_DEFAULT == 5

\* the largest limit the top-N endpoints apply
API_LIMIT_MAX == 15

Pad2(n) == <<Digits[(n \div 10) + 1], Digits[(n % 10) + 1]>>

\* strftime("%Y-%m-%d")
FormatDay(at) ==
    Pad2(at.y \div 100) \o Pad2(at.y % 100) \o <<"-">> \o Pad2(at.m) \o <<"-">> \o Pad2(at.d)

\* parse_transaction_date: strftime("%Y-%m-%d %H:%M") of the datetime read
FormatIso(at) == FormatDay(at) \o <<" ">> \o Pad2(at.H) \o <<":">> \o Pad2(at.M)

\* a <= b for TEXT values under SQLite's BINARY collation, by the code
\* points of the characters of dates and times
TextLeq(a, b) ==
    LET CharCode(c) == CASE c = " " -> 32
                         [] c = "-" -> 45
                         [] c = ":" -> 58
                         [] OTHER -> 48 + DigitValue(c)
        n == Min(Len(a), Len(b))
        diff == {j \in 1..n : a[j] # b[j]}
    IN  IF diff = {} THEN Len(a) <= Len(b)
        ELSE LET first == CHOOSE j \in diff : \A k \in diff : j <= k
             IN  CharCode(a[first]) < CharCode(b[first])

\* the date condition with the upper bound taken at 00:00
DateWhereMidnight(row, date_from, date_to) ==
    /\ Truthy(date_from) =>
          TextLeq(date_from.v \o <<" ", "0", "0", ":", "0", "0">>, row.TransactionDate)
    /\ Truthy(date_to) =>
          TextLeq(row.TransactionDate, date_to.v \o <<" ", "0", "0", ":", "0", "0">>)

\* _build_date_range_where: the condition the clause puts on a row
DateWhere(row, date_from, date_to) ==
    /\ Truthy(date_from) =>
          TextLeq(date_from.v \o <<" ", "0", "0", ":", "0", "0">>, row.TransactionDate)
    /\ Truthy(date_to) =>
          TextLeq(row.TransactionDate, date_to.v \o <<" ", "2", "3", ":", "5", "9">>)

\* the enumerations of the set S in an order that agrees with Before, a
\* predicate on two elements, taken on every pair
SortedOrders(S, Before) ==
    {o \in [1..Cardinality(S) -> S] :
        /\ \A i, j \in 1..Cardinality(S) : i # j => o[i] # o[j]
        /\ \A i, j \in 1..Cardinality(S) : i < j => Before[o[i], o[j]]}

RECURSIVE SumOf(_, _)
\* SUM(column) over the rows S
SumOf(S, column) ==
    IF S = {} THEN 0
    ELSE LET r == CHOOSE r \in S : TRUE
         IN  r[column] + SumOf(S \ {r}, column)

\* dict(row) of a row of the table
RowDict(r) ==
    PyDict([id |-> PyInt(r.id), CustomerID |-> PyInt(r.CustomerID),
            ProductID |-> Lit(r.ProductID), Quantity |-> PyInt(r.Quantity),
            TransactionDate |-> PyStr(r.TransactionDate),
            TotalAmount |-> PyInt(r.TotalAmount)])

TableRows == {db[j] : j \in 1..Len(db)}

\* the rows of the customer inside the date window
CustomerRows(cid, date_from, date_to) ==
    {r \in TableRows : r.CustomerID = cid /\ DateWhere(r, date_from, date_to)}

ByDate(r, q) == TextLeq(r.TransactionDate, q.TransactionDate)

\* the summary of the customer taken over all dates
CustomerSummaryAllDates(cid, date_from, date_to) ==
    LET S == {r \in TableRows : r.CustomerID = cid}
        first == CHOOSE r \in S : \A q \in S : ByDate(r, q)
        last == CHOOSE r \in S : \A q \in S : ByDate(q, r)
    IN  PyDict([transactionCount |-> PyInt(Cardinality(S)),
                totalSpend |-> PyInt(SumOf(S, "TotalAmount")),
                firstTransaction |-> PyStr(first.TransactionDate),
                lastTransaction |-> PyStr(last.TransactionDate)])

\* the second query of get_customer: COUNT, SUM, MIN, MAX
CustomerSummary(cid, date_from, date_to) ==
    LET S == CustomerRows(cid, date_from, date_to)
        first == CHOOSE r \in S : \A q \in S : ByDate(r, q)
        last == CHOOSE r \in S : \A q \in S : ByDate(q, r)
    IN  PyDict([transactionCount |-> PyInt(Cardinality(S)),
                totalSpend |-> PyInt(SumOf(S, "TotalAmount")),
                firstTransaction |-> PyStr(first.TransactionDate),
                lastTransaction |-> PyStr(last.TransactionDate)])

\* int(text): surrounding whitespace and a sign are accepted
IntOfText(text) ==
    LET t == Strip(text)
        body == IF t # <<>> /\ t[1] \in {"-", "+"} THEN Tail(t) ELSE t
    IN  IF IsDigits(body)
        THEN [ok |-> TRUE,
              value |-> IF t[1] = "-" THEN 0 - IntOfDigits(body) ELSE IntOfDigits(body)]
        ELSE [ok |-> FALSE, value |-> 0]

\* requested_limit = int(request.args.get("limit", "5")), 5 on ValueError
RequestedLimit(param) ==
    IF IsNone(param) THEN API_LIMIT_DEFAULT
    ELSE IF IntOfText(param.v).ok THEN IntOfText(param.v).value
    ELSE API_LIMIT_DEFAULT

\* the limit without the lower bound
ApiLimitNoFloor(requested) == Min(requested, API_LIMIT_MAX)

\* limit = max(1, min(requested_limit, 15))
ApiLimit(requested) ==
    LET capped == Min(requested, API_LIMIT_MAX)
    IN  IF capped > 1 THEN capped ELSE 1

\* the groups of GROUP BY CustomerID over the rows inside the date window
CustomerGroups(date_from, date_to) ==
    LET S == {r \in TableRows : DateWhere(r, date_from, date_to)}
    IN  {PyDict([CustomerID |-> PyInt(c),
                 transactionCount |-> PyInt(Cardinality({r \in S : r.CustomerID = c})),
                 totalRevenue |->
                     PyInt(SumOf({r \in S : r.CustomerID = c}, "TotalAmount"))]) :
            c \in {r.CustomerID : r \in S}}

\* the groups of GROUP BY ProductID over the rows inside the date window
ProductGroups(date_from, date_to) ==
    LET S == {r \in TableRows : DateWhere(r, date_from, date_to)}
    IN  {PyDict([ProductID |-> Lit(p),
                 transactionCount |-> PyInt(Cardinality({r \in S : r.ProductID = p})),
                 totalQuantity |-> PyInt(SumOf({r \in S : r.ProductID = p}, "Quantity")),
                 totalRevenue |->
                     PyInt(SumOf({r \in S : r.ProductID = p}, "TotalAmount"))]) :
            p \in {r.ProductID : r \in S}}

\* ORDER BY totalRevenue DESC
ByRevenue(g, h) == g.v.totalRevenue.v >= h.v.totalRevenue.v

\* ORDER BY totalRevenue DESC, totalQuantity DESC
ByRevenueAndQuantity(g, h) ==
    \/ g.v.totalRevenue.v > h.v.totalRevenue.v
    \/ /\ g.v.totalRevenue.v = h.v.totalRevenue.v
       /\ g.v.totalQuantity.v >= h.v.totalQuantity.v

\* the body of a top-N response: the rows kept by LIMIT, the limit, and
\* limitRequested / limitApplied when more than 15 were asked for
TopBody(metrics, param, date_from, date_to) ==
    LET requested_limit == RequestedLimit(param)
        limit == ApiLimit(requested_limit)
        out == [filters |-> PyDict([from |-> date_from, to |-> date_to]),
                limit |-> PyInt(limit),
                metrics |-> PyList(Take(metrics, limit))]
    IN  IF requested_limit > API_LIMIT_MAX
        THEN DictSet(DictSet(out, "limitRequested", PyInt(requested_limit)),
                     "limitApplied", PyInt(API_LIMIT_MAX))
        ELSE out

\* --- inputs ---

At(y, m, d, H, M) == [y |-> y, m |-> m, d |-> d, H |-> H, M |-> M]

CsvRow(c, p, q, at, amount) ==
    [CustomerID |-> c, ProductID |-> p, Quantity |-> q, at |-> at, TotalAmount |-> amount]

\* the files the loader reads: the rows of the test fixture; rows at the
\* first and last minute of a day, around the turn of a year, not in date
\* order; rows with equal dates and customers with equal revenue
CsvFiles ==
    {<<CsvRow(1, "A", 2, At(2024, 1, 15, 12, 0), 200),
       CsvRow(1, "B", 1, At(2024, 2, 1, 9, 0), 45),
       CsvRow(2, "A", 3, At(2024, 1, 20, 14, 0), 300)>>,
     <<CsvRow(1, "A", 1, At(2024, 10, 9, 12, 32), 70),
       CsvRow(1, "B", 2, At(2024, 1, 1, 23, 59), 30),
       CsvRow(2, "A", 1, At(2024, 1, 1, 0, 0), 55),
       CsvRow(1, "C", 1, At(2023, 12, 31, 23, 59), 10),
       CsvRow(1, "A", 4, At(2024, 1, 1, 0, 0), 20),
       CsvRow(3, "C", 2, At(2024, 2, 1, 0, 0), 90)>>,
     <<CsvRow(1, "A", 1, At(2024, 1, 15, 12, 0), 50),
       CsvRow(1, "B", 3, At(2024, 1, 15, 12, 0), 50),
       CsvRow(2, "B", 1, At(2024, 1, 15, 8, 5), 100),
       CsvRow(3, "C", 5, At(2024, 2, 1, 10, 0), 100),
       CsvRow(4, "A", 2, At(2024, 2, 1, 23, 59), 10)>>}

\* the values of the query parameters from and to: absent, or a day
DateParams ==
    {None} \cup {PyStr(FormatDay(d)) :
                    d \in {At(2023, 12, 31, 0, 0), At(2024, 1, 1, 0, 0),
                           At(2024, 1, 15, 0, 0), At(2024, 2, 1, 0, 0),
                           At(2024, 10, 9, 0, 0)}}

\* the values of the query parameter limit
LimitParams ==
    {None, PyStr(<<"1">>), PyStr(<<"2">>), PyStr(<<"3">>), PyStr(<<"0">>),
     PyStr(<<"-", "3">>), PyStr(<<"1", "5">>), PyStr(<<"1", "6">>), PyStr(<<"5", "0">>),
     PyStr(<<"a", "b", "c">>), PyStr(<<>>), PyStr(<<"2", ".", "5">>)}

\* --- actions ---

\* load_csv_to_sqlite: init_db, then the rows of the file inserted in order
LoadCsv(file) ==
    /\ db = <<>>
    /\ apiRequest = NoApiRequest
    /\ db' = [j \in 1..Len(file) |->
                [id |-> j, CustomerID |-> file[j].CustomerID,
                 ProductID |-> file[j].ProductID, Quantity |-> file[j].Quantity,
                 TransactionDate |-> FormatIso(file[j].at), at |-> file[j].at,
                 TotalAmount |-> file[j].TotalAmount]]
    /\ UNCHANGED <<apiRequest, apiResponse>>

\* GET /api/customers/<cid>?from=..&to=..
GetCustomer(cid, date_from, date_to) ==
    /\ apiRequest = NoApiRequest
    /\ apiRequest' = [endpoint |-> "get_customer", customer_id |-> cid,
                      from |-> date_from, to |-> date_to]
    /\ \E rows \in SortedOrders(CustomerRows(cid, date_from, date_to),
                                [r, q \in TableRows |-> ByDate(r, q)]) :
          apiResponse' =
              Respond(200,
                  [customerId |-> PyInt(cid),
                   transactions |-> PyList([j \in 1..Len(rows) |-> RowDict(rows[j])]),
                   summary |-> IF rows = <<>> THEN None
                               ELSE CustomerSummary(cid, date_from, date_to),
                   filters |-> PyDict([from |-> date_from, to |-> date_to])])
    /\ UNCHANGED db

\* GET /api/metrics/top_customers?limit=..&from=..&to=..
MetricsTopCustomers(param, date_from, date_to) ==
    /\ apiRequest = NoApiRequest
    /\ apiRequest' = [endpoint |-> "metrics_top_customers", limit |-> param,
                      from |-> date_from, to |-> date_to]
    /\ \E rows \in SortedOrders(CustomerGroups(date_from, date_to),
                                [g, h \in CustomerGroups(date_from, date_to) |->
                                    ByRevenue(g, h)]) :
          apiResponse' =
              Respond(200, TopBody(rows, param, date_from, date_to))
    /\ UNCHANGED db

\* GET /api/metrics/top_products?limit=..&from=..&to=..
MetricsTopProducts(param, date_from, date_to) ==
    /\ apiRequest = NoApiRequest
    /\ apiRequest' = [endpoint |-> "metrics_top_products", limit |-> param,
                      from |-> date_from, to |-> date_to]
    /\ \E rows \in SortedOrders(ProductGroups(date_from, date_to),
                                [g, h \in ProductGroups(date_from, date_to) |->
                                    ByRevenueAndQuantity(g, h)]) :
          apiResponse' =
              Respond(200, TopBody(rows, param, date_from, date_to))
    /\ UNCHANGED db

ApiNext ==
    \/ db = <<>> /\ (\E file \in CsvFiles : LoadCsv(file))
         /\ UNCHANGED <<routerVars, chatVars, parserVars>>
    \/ apiRequest = NoApiRequest
         /\ (\E cid \in {1, 2, 99999}, date_from \in DateParams, date_to \in DateParams :
                GetCustomer(cid, date_from, date_to))
         /\ UNCHANGED <<routerVars, chatVars, parserVars>>
    \/ apiRequest = NoApiRequest
         /\ (\E param \in LimitParams, date_from \in DateParams, date_to \in DateParams :
                MetricsTopCustomers(param, date_from, date_to))
         /\ UNCHANGED <<routerVars, chatVars, parserVars>>
    \/ apiRequest = NoApiRequest
         /\ (\E param \in LimitParams, date_from \in DateParams, date_to \in DateParams :
                MetricsTopProducts(param, date_from, date_to))
         /\ UNCHANGED <<routerVars, chatVars, parserVars>>

ApiSpec == Init /\ [][ApiNext]_vars

-----------------------------------------------------------------------------
(* Properties of the customer branch *)

Returned(kind) == pc = "returned" /\ intent.intent = kind

\* route_intent made its data-service call and the call returned `payload`
Fetched(kind) == Returned(kind) /\ calls # <<>>

\* the first min(Len(s), n) entries of s, in order
Prefix(s, n) == SubSeq(s, 1, Min(Len(s), n))

\* the transactions list of d and its three bookkeeping fields are the
\* trimmed form of the list tx
TrimmedTransactions(d, tx) ==
    /\ Get(d, "transactions") = PyList(Prefix(tx, 15))
    /\ Get(d, "transactionCount") = PyInt(Len(tx))
    /\ Get(d, "transactionsLimit") = PyInt(15)
    /\ Get(d, "transactionsTruncated") = PyBool(Len(tx) > 15)
    /\ (Len(tx) <= 15 => Get(d, "transactions") = PyList(tx))

\* the fetched payload has no transactions (an empty list, or none at all)
\* and a null summary
EmptyAndNullSummary ==
    /\ Get(payload, "transactions") \in {None, PyList(<<>>)}
    /\ Get(payload, "summary") = None

\* C1 as stated: for every fetched customer payload whose transactions field
\* is a list of length L, the routed payload carries the first min(L,15)
\* entries in order, transactionCount = L, transactionsLimit = 15 and
\* transactionsTruncated = (L > 15), the list being unmodified when L <= 15.
C1_AsStated ==
    (Fetched("customer") /\ IsList(Get(payload, "transactions")))
        => TrimmedTransactions(result, payload["transactions"].v)

\* C1 as amended: the same, for every fetched customer payload whose
\* transactions field is a list, except the no-data case (an empty list
\* together with a null summary), which yields the no_data status payload
\* instead.
C1_TrimmedUnlessNoData ==
    (Fetched("customer") /\ IsList(Get(payload, "transactions")) /\ ~EmptyAndNullSummary)
        => TrimmedTransactions(result, payload["transactions"].v)

C1_Witness ==
    /\ Fetched("customer")
    /\ IsList(Get(payload, "transactions"))
    /\ Len(payload["transactions"].v) = 16
    /\ Get(result, "transactionsTruncated") = PyBool(TRUE)
    /\ Len(result["transactions"].v) = 15

\* C2: a customer intent without customer_id, and a product intent without
\* product_id, is answered with status ambiguous_intent and reason
\* customer_id_missing (resp. product_id_missing) and no data-service call is
\* made, whatever metric, top_n and date_range hold.
C2_MissingIdIsAmbiguous ==
    /\ (intent.intent = "customer" /\ IsNone(intent.customer_id))
         => /\ pc = "returned"
            /\ calls = <<>>
            /\ Get(result, "status") = Lit("ambiguous_intent")
            /\ Get(result, "reason") = Lit("customer_id_missing")
    /\ (intent.intent = "product" /\ IsNone(intent.product_id))
         => /\ pc = "returned"
            /\ calls = <<>>
            /\ Get(result, "status") = Lit("ambiguous_intent")
            /\ Get(result, "reason") = Lit("product_id_missing")

C2_Witness ==
    /\ Returned("product")
    /\ IsNone(intent.product_id)
    /\ intent.customer_id = PyInt(1)
    /\ intent.metric = PyStr(S_summary)
    /\ intent.top_n = PyInt(50)
    /\ intent.date_range = PyStr(D_start \o DotDot \o D_end)
    /\ Get(result, "reason") = Lit("product_id_missing")

\* C3: for a customer intent with an id whose fetch succeeded, the result is
\* {status: no_data, reason: no_customer_transactions, customerId: the
\* intent's customer_id} exactly when the fetched payload has an empty
\* transaction list and a null summary; in every other case the result is a
\* data payload, which has no status field.
C3_NoDataExactlyWhenEmpty ==
    Fetched("customer") =>
        /\ EmptyAndNullSummary <=>
              result = [status |-> Lit("no_data"),
                        reason |-> Lit("no_customer_transactions"),
                        customerId |-> intent.customer_id]
        /\ ~EmptyAndNullSummary => "status" \notin DOMAIN result

C3_Witness ==
    /\ Fetched("customer")
    /\ Get(payload, "transactions") = PyList(<<>>)
    /\ "summary" \in DOMAIN payload
    /\ payload["summary"] = None
    /\ Get(result, "status") = Lit("no_data")
    /\ Get(result, "customerId") = PyInt(999)

-----------------------------------------------------------------------------
(* Properties of the product branch *)

\* x is zero or missing
ZeroOrMissing(d, k) == k \notin DOMAIN d \/ d[k] \in {None, PyInt(0)}

\* the fetched product payload carries no signal: it is empty, or its
\* summary is empty or null, or the three aggregates of the summary are all
\* zero or missing
NoProductSignal ==
    LET summary == Get(payload, "summary")
    IN  \/ DOMAIN payload = {}
        \/ summary = None
        \/ summary = PyDict(EmptyDict)
        \/ /\ IsDict(summary)
           /\ ZeroOrMissing(summary.v, "transactionCount")
           /\ ZeroOrMissing(summary.v, "totalQuantity")
           /\ ZeroOrMissing(summary.v, "totalRevenue")

\* C4: for a product intent with an id whose fetched payload carries no
\* signal, the result is exactly {status: no_data, reason:
\* no_product_transactions, productId: the intent's product_id}: no summary,
\* stores or transactions are forwarded, even if the payload had some.
C4_NoSignalIsNoData ==
    (Fetched("product") /\ NoProductSignal) =>
        result = [status |-> Lit("no_data"),
                  reason |-> Lit("no_product_transactions"),
                  productId |-> intent.product_id]

C4_Witness ==
    /\ Fetched("product")
    /\ IsDict(Get(payload, "summary"))
    /\ Get(payload["summary"].v, "transactionCount") = PyInt(0)
    /\ Get(payload["summary"].v, "totalQuantity") = PyInt(0)
    /\ Get(payload["summary"].v, "totalRevenue") = PyInt(0)
    /\ IsList(Get(payload["summary"].v, "stores"))
    /\ Len(payload["summary"].v["stores"].v) = 2
    /\ IsList(Get(payload, "transactions"))
    /\ Len(payload["transactions"].v) = 2
    /\ DOMAIN result = {"status", "reason", "productId"}
    /\ result["productId"] = Lit("B")

StoreFields == {"stores", "storeCount", "storesLimit", "storesTruncated"}

\* C5: for a product payload that carries signal and whose summary has a
\* stores list of length S, the routed summary has the first min(S,15) stores
\* in order, storeCount = S, storesLimit = 15, storesTruncated = (S > 15), and
\* every other field of the fetched summary unchanged (and no further field).
C5_StoresTrimmed ==
    (/\ Fetched("product")
     /\ ~NoProductSignal
     /\ IsList(Get(payload["summary"].v, "stores"))) =>
        LET fetched == payload["summary"].v
            stores == fetched["stores"].v
            routed == Get(result, "summary")
        IN  /\ IsDict(routed)
            /\ Get(routed.v, "stores") = PyList(Prefix(stores, 15))
            /\ Get(routed.v, "storeCount") = PyInt(Len(stores))
            /\ Get(routed.v, "storesLimit") = PyInt(15)
            /\ Get(routed.v, "storesTruncated") = PyBool(Len(stores) > 15)
            /\ DOMAIN routed.v = DOMAIN fetched \cup StoreFields
            /\ \A k \in DOMAIN fetched \ StoreFields : routed.v[k] = fetched[k]

C5_Witness ==
    /\ Fetched("product")
    /\ ~NoProductSignal
    /\ IsList(Get(payload["summary"].v, "stores"))
    /\ Len(payload["summary"].v["stores"].v) > 15
    /\ Len(result["summary"].v["stores"].v) = 15
    /\ result["summary"].v["storesTruncated"] = PyBool(TRUE)
    /\ result["summary"].v["uniqueCustomers"] = PyInt(3)

TransactionFields ==
    {"transactions", "transactionCount", "transactionsLimit", "transactionsTruncated"}

\* C6: for a product payload that carries signal, the result has exactly the
\* fields productId, summary and filters (productId and filters as fetched,
\* summary with at most 15 stores) and, only if the fetched payload has a
\* transactions list, that list trimmed to its first 15 entries with its
\* three bookkeeping fields; nothing else of the fetched payload is forwarded.
C6_SlimPayload ==
    (Fetched("product") /\ ~NoProductSignal) =>
        LET hasList == IsList(Get(payload, "transactions"))
        IN  /\ DOMAIN result = {"productId", "summary", "filters"}
                                  \cup (IF hasList THEN TransactionFields ELSE {})
            /\ result["productId"] = Get(payload, "productId")
            /\ result["filters"] = Get(payload, "filters")
            /\ IsDict(result["summary"])
            /\ IsList(Get(result["summary"].v, "stores"))
                  => Len(result["summary"].v["stores"].v) <= 15
            /\ ~IsList(Get(payload["summary"].v, "stores"))
                  => result["summary"] = payload["summary"]
            /\ hasList => TrimmedTransactions(result, payload["transactions"].v)

C6_Witness ==
    /\ Fetched("product")
    /\ ~NoProductSignal
    /\ "extra" \in DOMAIN payload
    /\ IsList(Get(payload, "transactions"))
    /\ Len(payload["transactions"].v) = 16
    /\ "extra" \notin DOMAIN result
    /\ Len(result["transactions"].v) = 15
    /\ result["transactionCount"] = PyInt(16)

-----------------------------------------------------------------------------
(* Properties of the business_metric branch *)

\* route_intent has been called with a business_metric intent
Business == pc # "idle" /\ intent.intent = "business_metric"

\* the intent's metric string, trimmed and lowercased ("" when absent)
Normalized == Lower(Strip(IF intent.metric = None THEN <<>> ELSE intent.metric.v))

\* exactly one data-service call, to op, has been made
CalledOnce(op) == Len(calls) = 1 /\ calls[1].op = op

\* C7: for metric top_customers / top_products the fetch is called with
\* limit = min(top_n or 5, 15); when top_n is given and exceeds 15 the result
\* is the fetched payload plus limitRequested = top_n and limitApplied = 15,
\* every fetched field (limit included) unchanged; otherwise the result is
\* the fetched payload itself.
C7_TopNClamp ==
    (Business /\ Normalized \in {S_top_customers, S_top_products}) =>
        LET n == intent.top_n
            wanted == IF n = None \/ n = PyInt(0) THEN 5 ELSE n.v
        IN  /\ CalledOnce(IF Normalized = S_top_customers
                          THEN "get_top_customers" ELSE "get_top_products")
            /\ calls[1].kwargs.limit = PyInt(IF wanted < 15 THEN wanted ELSE 15)
            /\ pc = "returned" =>
                  IF n # None /\ n.v > 15
                  THEN /\ DOMAIN result = DOMAIN payload \cup {"limitRequested", "limitApplied"}
                       /\ result["limitRequested"] = n
                       /\ result["limitApplied"] = PyInt(15)
                       /\ \A k \in DOMAIN payload : result[k] = payload[k]
                  ELSE result = payload

C7_Witness ==
    /\ Business
    /\ pc = "returned"
    /\ Normalized = S_top_customers
    /\ intent.top_n = PyInt(50)
    /\ calls[1].kwargs.limit = PyInt(15)
    /\ Get(payload, "limit") = PyInt(15)
    /\ Get(result, "limit") = PyInt(15)
    /\ Get(result, "limitRequested") = PyInt(50)
    /\ Get(result, "limitApplied") = PyInt(15)

\* C8: a business_metric intent whose trimmed, lowercased metric contains
\* "store" or "location" anywhere is answered with status unsupported_metric,
\* reason metric_not_supported, and no data-service call is made, even when
\* the string contains a supported synonym.
C8_StoreLocationRejected ==
    (Business /\ (Contains(S_store, Normalized) \/ Contains(S_location, Normalized))) =>
        /\ pc = "returned"
        /\ calls = <<>>
        /\ Get(result, "status") = Lit("unsupported_metric")
        /\ Get(result, "reason") = Lit("metric_not_supported")

C8_Witness ==
    /\ Business
    /\ pc = "returned"
    /\ intent.metric = PyStr(<<" ", "\t">> \o Upper(S_top_customers \o Suf_location) \o <<"\n">>)
    /\ Get(result, "reason") = Lit("metric_not_supported")

\* C9: a business_metric intent whose metric is absent, empty or only
\* whitespace is answered with status ambiguous_intent, reason
\* business_metric_unspecified and supportedMetrics = [summary, top_customers,
\* top_products, metrics_by_category, metrics_by_payment]; no data-service
\* call is made.
C9_UnspecifiedMetric ==
    (Business /\ (intent.metric = None
                    \/ \A j \in 1..Len(intent.metric.v) : intent.metric.v[j] \in Whitespace)) =>
        /\ pc = "returned"
        /\ calls = <<>>
        /\ result = [status |-> Lit("ambiguous_intent"),
                     reason |-> Lit("business_metric_unspecified"),
                     supportedMetrics |->
                        PyList(<<PyStr(S_summary), PyStr(S_top_customers),
                                 PyStr(S_top_products), PyStr(S_metrics_by_category),
                                 PyStr(S_metrics_by_payment)>>)]

C9_Witness ==
    /\ Business
    /\ pc = "returned"
    /\ intent.metric = PyStr(<<" ", "\t", "\n">>)
    /\ Get(result, "reason") = Lit("business_metric_unspecified")

\* the fetch the claim assigns to a normalized metric name
SynonymFetch(m) ==
    CASE m \in {S_summary, S_overview, S_kpis, S_revenue_summary,
                S_total_revenue, S_revenue} -> "get_metrics_summary"
      [] m \in {S_metrics_by_category, S_revenue_by_category,
                S_category_revenue, S_revenue_per_category} -> "get_metrics_by_category"
      [] m \in {S_metrics_by_payment, S_revenue_by_payment, S_payment_revenue,
                S_revenue_per_payment, S_by_payment} -> "get_metrics_by_payment"
      [] OTHER -> "none"

\* C10: a business_metric intent whose trimmed, lowercased metric is in the
\* overall-summary, the by-category or the by-payment synonym set makes
\* exactly one data-service call, to the corresponding fetch, and returns the
\* fetched payload unmodified.
C10_SynonymsFetchOnce ==
    (Business /\ SynonymFetch(Normalized) # "none") =>
        /\ CalledOnce(SynonymFetch(Normalized))
        /\ pc = "returned" => result = payload

C10_Witness ==
    /\ Business
    /\ pc = "returned"
    /\ intent.metric = PyStr(<<" ", "\t">> \o Upper(S_by_payment) \o <<"\n">>)
    /\ CalledOnce("get_metrics_by_payment")
    /\ IsList(Get(payload, "metrics"))
    /\ Len(payload["metrics"].v) = 3
    /\ result = payload

-----------------------------------------------------------------------------
(* Properties of the unrecognized metrics and of the date range *)

FixedSupportedMetrics ==
    PyList(<<PyStr(S_summary), PyStr(S_top_customers), PyStr(S_top_products),
             PyStr(S_metrics_by_category), PyStr(S_metrics_by_payment)>>)

\* C11: a business_metric intent whose trimmed, lowercased metric is not
\* empty, contains neither "store" nor "location", is in no synonym set and
\* is neither top_customers nor top_products is answered with status
\* unsupported_metric, reason metric_not_recognized, requestedMetric = the
\* metric string as given (not normalized) and the fixed list of supported
\* metrics; no data-service call is made.
C11_UnrecognizedMetric ==
    (/\ Business
     /\ Normalized # <<>>
     /\ ~Contains(S_store, Normalized)
     /\ ~Contains(S_location, Normalized)
     /\ SynonymFetch(Normalized) = "none"
     /\ Normalized \notin {S_top_customers, S_top_products}) =>
        /\ pc = "returned"
        /\ calls = <<>>
        /\ result = [status |-> Lit("unsupported_metric"),
                     reason |-> Lit("metric_not_recognized"),
                     requestedMetric |-> intent.metric,
                     supportedMetrics |-> FixedSupportedMetrics]

C11_Witness ==
    /\ Business
    /\ pc = "returned"
    /\ intent.metric = PyStr(<<" ", "\t">> \o Upper(S_churn_rate) \o <<"\n">>)
    /\ Get(result, "reason") = Lit("metric_not_recognized")
    /\ Get(result, "requestedMetric") = intent.metric
    /\ calls = <<>>

\* the date bounds route_intent passed to its data-service call
BoundsPassed == <<calls[1].kwargs.date_from, calls[1].kwargs.date_to>>

CleanTokens == {D_start, D_end, D_last, D_week}

HasDotDot(s) == \E j \in 1..(Len(s) - 1) : s[j] = "." /\ s[j + 1] = "."

\* C12: the date range "S..E" is interpreted as (S, E); None, the empty
\* string and a string of spaces are interpreted as (None, None); so is any
\* string without the separator "..", such as a bare date.
C12_DateRangeInterpretation ==
    calls # <<>> =>
        LET d == intent.date_range
        IN  /\ \A S \in CleanTokens, E \in CleanTokens :
                  d = PyStr(S \o <<".", ".">> \o E) => BoundsPassed = <<PyStr(S), PyStr(E)>>
            /\ d = None => BoundsPassed = <<None, None>>
            /\ (d # None /\ \A j \in 1..Len(d.v) : d.v[j] = " ")
                  => BoundsPassed = <<None, None>>
            /\ (d # None /\ ~HasDotDot(d.v)) => BoundsPassed = <<None, None>>

C12_Witness ==
    /\ pc = "returned"
    /\ intent.intent = "customer"
    /\ intent.date_range = PyStr(D_start \o DotDot \o D_end)
    /\ calls # <<>>
    /\ BoundsPassed = <<PyStr(D_start), PyStr(D_end)>>
    /\ request.params = PyDict([from |-> PyStr(D_start), to |-> PyStr(D_end)])

DigitChars == {"0", "1", "2", "3", "4", "5", "6", "7", "8", "9"}

\* s has the form YYYY-MM-DD
IsoDate(s) ==
    /\ Len(s) = 10
    /\ \A j \in {1, 2, 3, 4, 6, 7, 9, 10} : s[j] \in DigitChars
    /\ s[5] = "-"
    /\ s[8] = "-"

\* s has the exact form YYYY-MM-DD..YYYY-MM-DD
ExactRange(s) ==
    /\ Len(s) = 22
    /\ IsoDate(SubSeq(s, 1, 10))
    /\ SubSeq(s, 11, 12) = <<".", ".">>
    /\ IsoDate(SubSeq(s, 13, 22))

\* C13: any non-empty date_range that is not of the exact form
\* YYYY-MM-DD..YYYY-MM-DD is unparsed: both bounds are absent and the fetch
\* is made with no date filter.
C13_OtherFormsUnparsed ==
    (/\ calls # <<>>
     /\ intent.date_range # None
     /\ intent.date_range.v # <<>>
     /\ ~ExactRange(intent.date_range.v)) =>
        /\ BoundsPassed = <<None, None>>
        /\ "from" \notin DOMAIN RequestParams(calls[1])
        /\ "to" \notin DOMAIN RequestParams(calls[1])

-----------------------------------------------------------------------------
(* Properties of the outcome of route_intent *)

Kinds == {"customer", "product", "business_metric"}

AmbiguousReasons ==
    {Lit("customer_id_missing"), Lit("product_id_missing"),
     Lit("business_metric_unspecified")}

NoDataReasons == {Lit("no_customer_transactions"), Lit("no_product_transactions")}

UnsupportedReasons == {Lit("metric_not_supported"), Lit("metric_not_recognized")}

\* d is one of the three status payloads, or a data payload (no status)
StatusOrData(d) ==
    "status" \in DOMAIN d =>
        /\ "reason" \in DOMAIN d
        /\ \/ d.status = Lit("ambiguous_intent") /\ d.reason \in AmbiguousReasons
           \/ d.status = Lit("no_data") /\ d.reason \in NoDataReasons
           \/ d.status = Lit("unsupported_metric") /\ d.reason \in UnsupportedReasons

\* the exchange with the API gave a decoded body
FetchSucceeded == http.kind = "response" /\ http.ok /\ http.json

\* the exchange with the API took place and gave no decoded body
FetchFailed == http.kind # "none" /\ ~FetchSucceeded

\* C14: for an intent of kind customer, product or business_metric,
\* route_intent without a fetch, or with a successful one, returns one
\* RoutedResult carrying the input intent and a data value that is an
\* ambiguous_intent, no_data or unsupported_metric status payload or a data
\* payload; a missing id, empty data or an unsupported metric never raises,
\* and RoutingError is raised only for a kind outside the three.
C14_OneRoutedResult ==
    /\ (intent.intent \in Kinds /\ pc # "idle" /\ (calls = <<>> \/ FetchSucceeded))
          => /\ pc = "returned"
             /\ raised = "none"
             /\ routedResult = [intent |-> intent, data |-> result]
             /\ StatusOrData(result)
    /\ pc = "returned" => routedResult.intent = intent
    /\ pc # "returned" => routedResult = NoRouted
    /\ raised = "RoutingError" => intent.intent \notin Kinds
    /\ (pc = "raised" /\ intent.intent \in Kinds) => FetchFailed

C14_Witness ==
    /\ Fetched("product")
    /\ FetchSucceeded
    /\ routedResult.intent = intent
    /\ routedResult.data = result
    /\ Get(result, "status") = Lit("no_data")

C14_RoutingErrorWitness ==
    /\ pc = "raised"
    /\ raised = "RoutingError"
    /\ intent.intent = "order"
    /\ routedResult = NoRouted

\* C15: when the data-service fetch made by route_intent fails,
\* route_intent fails with the error of the fetch and returns no
\* RoutedResult; a no_data payload is returned only after a fetch that
\* succeeded with an empty result.
C15_FailedFetchPropagates ==
    /\ FetchFailed =>
          /\ pc = "raised"
          /\ raised = (IF http.kind = "exception" THEN http.name ELSE "DataServiceError")
          /\ result = EmptyDict
          /\ routedResult = NoRouted
    /\ (pc = "returned" /\ Get(result, "status") = Lit("no_data")) =>
          /\ FetchSucceeded
          /\ payload = http.body
          /\ \/ intent.intent = "customer" /\ EmptyAndNullSummary
             \/ intent.intent = "product" /\ NoProductSignal

C15_Witness ==
    /\ pc = "raised"
    /\ intent.intent = "customer"
    /\ http = [kind |-> "response", ok |-> FALSE, json |-> TRUE, body |-> EmptyDict]
    /\ raised = "DataServiceError"
    /\ routedResult = NoRouted

\* C16: an invocation of route_intent makes no data-service call or one,
\* whatever the intent and the outcome of the fetch; a failed fetch is not
\* retried.
C16_AtMostOneFetch ==
    /\ Len(calls) <= 1
    /\ (pc # "idle" /\ FetchOp(intent) = "none") => calls = <<>>
    /\ FetchFailed => Len(calls) = 1 /\ pc = "raised"

C16_Witness ==
    /\ pc = "raised"
    /\ FetchFailed
    /\ http.kind = "exception"
    /\ Len(calls) = 1

-----------------------------------------------------------------------------
(* Properties of the data service *)

\* C19: a data-access operation returns the decoded body of the response,
\* or fails with DataServiceError: it fails with DataServiceError when the
\* response is not OK, when the transport fails, when the request times out
\* and when the body is not valid JSON.
C19_DataServiceErrorOnly ==
    http.kind # "none" =>
        IF FetchSucceeded
        THEN raised = "none" /\ payload = http.body
        ELSE raised = "DataServiceError" /\ payload = EmptyDict

\* the query parameters sent with the request, as a dict
SentParams == IF request.params = None THEN EmptyDict ELSE request.params.v

\* C20: a data-access operation sends the query parameter "from" (resp.
\* "to") exactly when its date_from (resp. date_to) is given, with the value
\* unchanged, and no parameter for a bound that is not given; the top-N
\* operations send the limit they are given as well, in every case.
C20_QueryParameters ==
    calls # <<>> =>
        LET kw == calls[1].kwargs
        IN  /\ "from" \in DOMAIN SentParams <=> kw.date_from # None
            /\ "from" \in DOMAIN SentParams => SentParams["from"] = kw.date_from
            /\ "to" \in DOMAIN SentParams <=> kw.date_to # None
            /\ "to" \in DOMAIN SentParams => SentParams["to"] = kw.date_to
            /\ "limit" \in DOMAIN SentParams <=> calls[1].op \in TopOps
            /\ "limit" \in DOMAIN SentParams => SentParams["limit"] = kw.limit
            /\ DOMAIN SentParams \subseteq {"from", "to", "limit"}

C20_Witness ==
    /\ calls # <<>>
    /\ calls[1].op = "get_top_products"
    /\ calls[1].kwargs.date_from = PyStr(D_start)
    /\ calls[1].kwargs.date_to = None
    /\ SentParams = [limit |-> PyInt(15), from |-> PyStr(D_start)]

-----------------------------------------------------------------------------
(* Properties of the /chat endpoint *)

PipelineOrder == <<"parse", "route", "generate">>

\* C17: the stages of a request to /chat start in the order parse intent,
\* route intent, generate response, each at most once; route_intent is not
\* called unless parse_intent returned an Intent, and generate_response is
\* not called unless route_intent returned.
C17_StagesInOrder ==
    /\ \E n \in 0..3 : stages = SubSeq(PipelineOrder, 1, n)
    /\ pc # "idle" <=> Len(stages) >= 2
    /\ Len(stages) >= 2 => parsed \in ChatIntents /\ intent = parsed
    /\ (stages = <<"parse">> /\ caught # "none") => stage = "done" /\ pc = "idle"
    /\ Len(stages) = 3 => pc = "returned" /\ raised = "none" /\ routedResult.intent = parsed
    /\ pc = "raised" => stages = <<"parse", "route">> /\ stage = "done"
    /\ Len(calls) <= 1

C17_Witness ==
    /\ stage = "done"
    /\ stages = PipelineOrder
    /\ calls # <<>>
    /\ FetchSucceeded
    /\ response.status = 200

\* C18: parse failure gives 400 with error IntentParsingFailed; a failure of
\* route_intent, whatever the exception (DataServiceError, a timeout), gives
\* 400 with error RoutingFailed and the intent; a failure of
\* generate_response gives 502 with error ResponseGenerationFailed, the
\* intent and the routed data; success gives 200 with intent, data and
\* answer.
C18_ResponsePerOutcome ==
    (stage = "done" /\ stages # <<>>) =>
        LET body == response.body
        IN  /\ (stages = <<"parse">>) =>
                  /\ response.status = 400
                  /\ Get(body, "error") = Lit("IntentParsingFailed")
                  /\ DOMAIN body = {"error", "message"}
            /\ (pc = "raised") =>
                  /\ response.status = 400
                  /\ Get(body, "error") = Lit("RoutingFailed")
                  /\ Get(body, "intent") = ModelDump(parsed)
                  /\ DOMAIN body = {"error", "message", "intent"}
            /\ (Len(stages) = 3 /\ caught # "none") =>
                  /\ response.status = 502
                  /\ Get(body, "error") = Lit("ResponseGenerationFailed")
                  /\ Get(body, "intent") = ModelDump(parsed)
                  /\ Get(body, "data") = ToDict(routedResult)
                  /\ ToDict(routedResult).v.data = PyDict(result)
                  /\ DOMAIN body = {"error", "message", "intent", "data"}
            /\ (Len(stages) = 3 /\ caught = "none") =>
                  /\ response.status = 200
                  /\ Get(body, "intent") = ModelDump(parsed)
                  /\ Get(body, "data") = ToDict(routedResult)
                  /\ ToDict(routedResult).v.data = PyDict(result)
                  /\ Get(body, "answer") \in Answers
                  /\ DOMAIN body = {"intent", "data", "answer"}
            /\ FetchFailed => response.status = 400 /\ Get(body, "error") = Lit("RoutingFailed")

C18_Witness ==
    /\ stage = "done"
    /\ http = [kind |-> "exception", name |-> "requests.Timeout"]
    /\ caught = "requests.Timeout"
    /\ response.status = 400
    /\ response.body.error = Lit("RoutingFailed")
    /\ response.body.intent = ModelDump(parsed)

C18_GenerationFailureWitness ==
    /\ stage = "done"
    /\ response.status = 502
    /\ Get(response.body.data.v.data.v, "status") = Lit("no_data")

-----------------------------------------------------------------------------
(* Properties of the limits and of the bookkeeping of route_intent *)

\* C26: for an intent whose metric routes to top_customers or top_products,
\* whatever top_n holds (absent, 0, negative, any integer), the limit passed
\* to the fetch is an integer from 1 to 15.
C26_LimitBetween1And15 ==
    (Business /\ Normalized \in {S_top_customers, S_top_products} /\ calls # <<>>) =>
        /\ calls[1].kwargs.limit.t = "int"
        /\ calls[1].kwargs.limit.v \in 1..15

\* s is the first Len(s) elements of t
IsPrefixOf(s, t) == Len(s) <= Len(t) /\ s = SubSeq(t, 1, Len(s))

\* the list d[list] and its bookkeeping fields describe the fetched list
Bookkept(d, list, limit, count, truncated, fetched) ==
    /\ Len(d[list].v) <= 15
    /\ Get(d, limit) = PyInt(15)
    /\ IsList(fetched)
    /\ IsPrefixOf(d[list].v, fetched.v)
    /\ Get(d, count) = PyInt(Len(fetched.v))
    /\ Get(d, truncated) = PyBool(Len(d[list].v) < Len(fetched.v))

\* C27: in every RoutedResult whose data carries a transactions list, the
\* list has at most transactionsLimit = 15 entries and is a prefix of the
\* fetched list, transactionCount is the length of the fetched list, and
\* transactionsTruncated holds exactly when the returned list is shorter
\* than transactionCount; likewise for summary.stores with storesLimit,
\* storeCount and storesTruncated.
C27_Bookkeeping ==
    pc = "returned" =>
        /\ IsList(Get(result, "transactions")) =>
              Bookkept(result, "transactions", "transactionsLimit", "transactionCount",
                       "transactionsTruncated", Get(http.body, "transactions"))
        /\ (IsDict(Get(result, "summary")) /\ IsList(Get(result["summary"].v, "stores"))) =>
              /\ IsDict(Get(http.body, "summary"))
              /\ Bookkept(result["summary"].v, "stores", "storesLimit", "storeCount",
                          "storesTruncated", Get(http.body["summary"].v, "stores"))

C27_Witness ==
    /\ Fetched("product")
    /\ IsList(Get(result, "transactions"))
    /\ IsList(Get(http.body, "transactions"))
    /\ Len(result["transactions"].v) = 15
    /\ Len(http.body["transactions"].v) = 16
    /\ result["transactionsTruncated"] = PyBool(TRUE)
    /\ IsList(Get(result["summary"].v, "stores"))
    /\ Len(result["summary"].v["stores"].v) = 2
    /\ result["summary"].v["storesTruncated"] = PyBool(FALSE)

\* C28: route_intent leaves its inputs as they were: the Intent it returns in
\* the RoutedResult has the field values of the Intent it was given, and the
\* dict the data service returned (its transactions list, its summary and
\* the stores list of the summary included) is as the service returned it;
\* the trimming and the annotation are made on copies.
C28_InputsUnchanged ==
    /\ pc = "returned" => routedResult.intent = intent
    /\ (pc = "returned" /\ calls # <<>>) =>
          /\ payload = http.body
          /\ calls[1].kwargs = FetchKwargs(intent)

C28_Witness ==
    /\ Fetched("customer")
    /\ IsList(Get(http.body, "transactions"))
    /\ Len(http.body["transactions"].v) = 17
    /\ Len(result["transactions"].v) = 15
    /\ payload = http.body
    /\ "transactionCount" \notin DOMAIN payload
    /\ "transactionCount" \in DOMAIN result

-----------------------------------------------------------------------------
(* Properties of the requests and responses of /chat *)

\* q is no usable query: no field, not a string, empty, or blank
BadQuery(q) == q.t # "str" \/ \A j \in 1..Len(q.v) : q.v[j] \in {" ", "\t", "\n"}

C30_DataIsRoutedDict ==
    response.status \in {200, 502} =>
        LET data == Get(response.body, "data")
        IN  /\ IsDict(data)
            /\ DOMAIN data.v = {"intent", "data"}
            /\ data.v.intent = Get(response.body, "intent")
            /\ data.v.intent = ModelDump(intent)
            /\ data.v.data = PyDict(result)
            /\ StatusOrData(result)

C30_Witness ==
    /\ response.status = 200
    /\ intent.intent = "customer"
    /\ "status" \notin DOMAIN response.body.data.v
    /\ "transactionsTruncated" \notin DOMAIN response.body.data.v
    /\ Get(response.body.data.v.data.v, "transactionsTruncated") = PyBool(TRUE)

-----------------------------------------------------------------------------
(* Properties of Intent validation and of parse_intent *)

IntFields == {"customer_id", "top_n"}

StrFields == {"product_id", "metric", "date_range"}

\* the kind of the candidate c is one of the three
KindAllowed(c) ==
    "intent" \in DOMAIN c /\ c.intent.t = "lit" /\ c.intent.v \in Kinds

\* every field of c that is given has its declared type
DeclaredTypes(c) ==
    /\ \A k \in IntFields : Get(c, k).t \in {"none", "int"}
    /\ \A k \in StrFields : Get(c, k).t \in {"none", "str", "lit"}

\* as DeclaredTypes, a string of decimal digits being taken for an integer
ConvertibleTypes(c) ==
    /\ \A k \in IntFields :
          \/ Get(c, k).t \in {"none", "int"}
          \/ Get(c, k).t = "str" /\ Get(c, k).v # <<>>
                /\ \A j \in 1..Len(Get(c, k).v) : Get(c, k).v[j] \in DigitChars
    /\ \A k \in StrFields : Get(c, k).t \in {"none", "str", "lit"}

\* C21 as stated: validation accepts a candidate exactly when its kind is
\* one of customer, product, business_metric and every field has its
\* declared type, and the Intent has the field values of the candidate; a
\* missing kind or a kind outside the three is rejected with a validation
\* error; no cross-field condition rejects.
C21_AsStated ==
    validation # NoOutcome =>
        /\ validation.kind = "returned" <=>
              (IsDict(candidate) /\ KindAllowed(candidate.v) /\ DeclaredTypes(candidate.v))
        /\ validation.kind = "returned" =>
              /\ validation.intent.intent = candidate.v.intent.v
              /\ \A k \in IntFields \cup StrFields :
                    validation.intent[k] = Get(candidate.v, k)
        /\ validation.kind # "returned" =>
              validation = [kind |-> "raised", error |-> "ValidationError"]

\* C21 as amended: validation accepts a candidate exactly when its kind is
\* one of the three and every field has its declared type or, for the
\* integer fields customer_id and top_n, is a string of decimal digits; the
\* Intent has the field values of the candidate, a string of digits being
\* stored as the integer it spells and a field left out as None; a missing
\* kind or a kind outside the three is rejected with a validation error; no
\* cross-field condition rejects.
C21_AcceptsConvertible ==
    validation # NoOutcome =>
        /\ validation.kind = "returned" <=>
              (IsDict(candidate) /\ KindAllowed(candidate.v) /\ ConvertibleTypes(candidate.v))
        /\ validation.kind = "returned" =>
              /\ validation.intent.intent = candidate.v.intent.v
              /\ \A k \in StrFields : validation.intent[k] = Get(candidate.v, k)
              /\ \A k \in IntFields :
                    /\ Get(candidate.v, k).t # "str" => validation.intent[k] = Get(candidate.v, k)
                    /\ Get(candidate.v, k) = PyStr(<<"1", "2", "3">>) => validation.intent[k] = PyInt(123)
                    /\ Get(candidate.v, k) = PyStr(<<"5", "0">>) => validation.intent[k] = PyInt(50)
        /\ validation.kind # "returned" =>
              validation = [kind |-> "raised", error |-> "ValidationError"]

C21_Witness ==
    /\ validation.kind = "returned"
    /\ llmText = None
    /\ validation.intent.intent = "customer"
    /\ "customer_id" \notin DOMAIN candidate.v
    /\ validation.intent.customer_id = None
    /\ Get(candidate.v, "top_n") = PyStr(<<"5", "0">>)
    /\ validation.intent.top_n = PyInt(50)

C21_RejectedWitness ==
    /\ validation.kind = "raised"
    /\ IsDict(candidate)
    /\ "intent" \notin DOMAIN candidate.v
    /\ DeclaredTypes(candidate.v)

\* C22: for every text the language model returns, parse_intent returns a
\* validated Intent or raises IntentParsingError; a missing or empty text, a
\* text that is not JSON and JSON that fails the validation of Intent raise
\* IntentParsingError and give no Intent.
C22_IntentOrParsingError ==
    parseOutcome # NoOutcome =>
        /\ \/ parseOutcome = [kind |-> "raised", error |-> "IntentParsingError"]
           \/ /\ parseOutcome.kind = "returned"
              /\ DOMAIN parseOutcome = {"kind", "intent"}
              /\ parseOutcome.intent.intent \in Kinds
              /\ parseOutcome.intent.customer_id.t \in {"none", "int"}
              /\ parseOutcome.intent.top_n.t \in {"none", "int"}
              /\ \A k \in StrFields : parseOutcome.intent[k].t \in {"none", "str", "lit"}
        /\ llmText \in EmptyTexts \cup NotJsonTexts => parseOutcome.kind = "raised"
        /\ (llmText \notin EmptyTexts \cup NotJsonTexts
               /\ ~(IsDict(candidate) /\ KindAllowed(candidate.v) /\ ConvertibleTypes(candidate.v)))
              => parseOutcome.kind = "raised"

C22_Witness ==
    /\ parseOutcome = [kind |-> "raised", error |-> "IntentParsingError"]
    /\ llmText \notin EmptyTexts \cup NotJsonTexts
    /\ IsDict(candidate)
    /\ Get(candidate.v, "intent") = Lit("invalid_type")

C22_ReturnedWitness ==
    /\ parseOutcome.kind = "returned"
    /\ parseOutcome.intent = MkIntent("customer", PyInt(123), None, PyStr(S_summary), None, None)

-----------------------------------------------------------------------------
(* Properties of the REST API *)

\* the calendar day of a datetime, as one number
DayNumber(at) == at.y * 10000 + at.m * 100 + at.d

\* the calendar day a YYYY-MM-DD bound names
DayOfParam(p) ==
    IntOfDigits(SubSeq(p.v, 1, 4)) * 10000 + IntOfDigits(SubSeq(p.v, 6, 7)) * 100
        + IntOfDigits(SubSeq(p.v, 9, 10))

\* from <= D <= to for the day D of the row, an absent bound not restricting
InWindow(r, date_from, date_to) ==
    /\ ~IsNone(date_from) => DayOfParam(date_from) <= DayNumber(r.at)
    /\ ~IsNone(date_to) => DayNumber(r.at) <= DayOfParam(date_to)

\* the datetime a is not after the datetime b
NotAfter(a, b) ==
    \/ DayNumber(a) < DayNumber(b)
    \/ DayNumber(a) = DayNumber(b) /\ a.H * 100 + a.M <= b.H * 100 + b.M

\* the stored row a response row was made from
RowOfId(d) == CHOOSE r \in TableRows : PyInt(r.id) = Get(d.v, "id")

RECURSIVE AmountSum(_)
AmountSum(txs) ==
    IF txs = <<>> THEN 0 ELSE Get(Head(txs).v, "TotalAmount").v + AmountSum(Tail(txs))

\* C23: the customer endpoint answers 200 with exactly the stored
\* transactions of the customer inside the date window, in ascending order
\* of TransactionDate; summary.transactionCount is the number of returned
\* transactions and summary.totalSpend the sum of their amounts; when no
\* transaction matches, the list is empty and the summary is null.
C23_CustomerTransactions ==
    apiRequest.endpoint = "get_customer" =>
        LET body == apiResponse.body
            txs == Get(body, "transactions")
            summary == Get(body, "summary")
            stored == {r \in TableRows :
                          /\ r.CustomerID = apiRequest.customer_id
                          /\ InWindow(r, apiRequest.from, apiRequest.to)}
        IN  /\ apiResponse.status = 200
            /\ IsList(txs)
            /\ Len(txs.v) = Cardinality(stored)
            /\ {txs.v[j] : j \in 1..Len(txs.v)} = {RowDict(r) : r \in stored}
            /\ \A i, j \in 1..Len(txs.v) :
                  i < j => NotAfter(RowOfId(txs.v[i]).at, RowOfId(txs.v[j]).at)
            /\ IF stored = {}
               THEN txs.v = <<>> /\ summary = None
               ELSE /\ IsDict(summary)
                    /\ Get(summary.v, "transactionCount") = PyInt(Len(txs.v))
                    /\ Get(summary.v, "totalSpend") = PyInt(AmountSum(txs.v))

\* a window that keeps some and leaves out some of the customer's
\* transactions, stored out of date order
C23_Witness ==
    /\ apiRequest.endpoint = "get_customer"
    /\ IsList(Get(apiResponse.body, "transactions"))
    /\ Len(Get(apiResponse.body, "transactions").v) = 3
    /\ Cardinality({r \in TableRows : r.CustomerID = apiRequest.customer_id}) = 4
    /\ Get(Get(apiResponse.body, "transactions").v[1].v, "id") = PyInt(5)

\* no transaction of the customer in the window: 200, empty list, no summary
C23_EmptyWitness ==
    /\ apiRequest.endpoint = "get_customer"
    /\ apiRequest.customer_id = 1
    /\ db # <<>>
    /\ apiResponse.status = 200
    /\ Get(apiResponse.body, "transactions") = PyList(<<>>)
    /\ Get(apiResponse.body, "summary") = None

\* the integer a value of the limit parameter stands for, 5 when it is
\* absent or no integer
LimitMeaning(param) ==
    CASE param = None -> 5
      [] param = PyStr(<<"1">>) -> 1
      [] param = PyStr(<<"2">>) -> 2
      [] param = PyStr(<<"3">>) -> 3
      [] param = PyStr(<<"0">>) -> 0
      [] param = PyStr(<<"-", "3">>) -> 0 - 3
      [] param = PyStr(<<"1", "5">>) -> 15
      [] param = PyStr(<<"1", "6">>) -> 16
      [] param = PyStr(<<"5", "0">>) -> 50
      [] OTHER -> 5

TopEndpoints == {"metrics_top_customers", "metrics_top_products"}

\* C24: the top_customers and top_products endpoints apply
\* limit = max(1, min(requested, 15)), requested being 5 when the parameter
\* is absent or no integer; they echo it as limit, return at most limit rows
\* by descending total revenue, and carry limitRequested and limitApplied = 15
\* exactly when requested > 15.
C24_TopLimit ==
    apiRequest.endpoint \in TopEndpoints =>
        LET body == apiResponse.body
            requested == LimitMeaning(apiRequest.limit)
            capped == IF requested < 15 THEN requested ELSE 15
            limit == IF capped > 1 THEN capped ELSE 1
            metrics == Get(body, "metrics")
        IN  /\ Get(body, "limit") = PyInt(limit)
            /\ IsList(metrics)
            /\ Len(metrics.v) <= limit
            /\ \A i, j \in 1..Len(metrics.v) :
                  i < j => Get(metrics.v[i].v, "totalRevenue").v
                               >= Get(metrics.v[j].v, "totalRevenue").v
            /\ IF requested > 15
               THEN /\ Get(body, "limitRequested") = PyInt(requested)
                    /\ Get(body, "limitApplied") = PyInt(15)
               ELSE /\ "limitRequested" \notin DOMAIN body
                    /\ "limitApplied" \notin DOMAIN body

\* a limit of 0 answered with one row out of several groups
C24_Witness ==
    /\ apiRequest.endpoint = "metrics_top_customers"
    /\ apiRequest.limit = PyStr(<<"0">>)
    /\ Get(apiResponse.body, "limit") = PyInt(1)
    /\ IsList(Get(apiResponse.body, "metrics"))
    /\ Len(Get(apiResponse.body, "metrics").v) = 1
    /\ Cardinality({r.CustomerID : r \in TableRows}) >= 3

\* a limit above 15 answered with limitRequested and limitApplied
C24_CappedWitness ==
    /\ apiRequest.endpoint = "metrics_top_products"
    /\ apiRequest.limit = PyStr(<<"5", "0">>)
    /\ Get(apiResponse.body, "limit") = PyInt(15)
    /\ Get(apiResponse.body, "limitApplied") = PyInt(15)
    /\ Get(apiResponse.body, "limitRequested") = PyInt(50)
    /\ IsList(Get(apiResponse.body, "metrics"))
    /\ Len(Get(apiResponse.body, "metrics").v) = 3

\* C25: the date bounds are inclusive: a transaction on day D, at any time
\* of day, is selected exactly when from <= D <= to; an absent bound does not
\* restrict, and with both absent there is no date condition.  Stated on the
\* condition of the request and on what the endpoints return.
C25_InclusiveBounds ==
    apiRequest.endpoint # "none" =>
        /\ \A r \in TableRows :
              DateWhere(r, apiRequest.from, apiRequest.to)
                  <=> InWindow(r, apiRequest.from, apiRequest.to)
        /\ apiRequest.endpoint = "get_customer" =>
              {Get(d.v, "id").v : d \in {Get(apiResponse.body, "transactions").v[j] :
                                  j \in 1..Len(Get(apiResponse.body, "transactions").v)}}
                  = {r.id : r \in {q \in TableRows :
                                      /\ q.CustomerID = apiRequest.customer_id
                                      /\ InWindow(q, apiRequest.from, apiRequest.to)}}
        /\ apiRequest.endpoint = "metrics_top_customers" =>
              \A j \in 1..Len(Get(apiResponse.body, "metrics").v) :
                  LET g == Get(apiResponse.body, "metrics").v[j].v
                  IN  Get(g, "transactionCount").v =
                          Cardinality({r \in TableRows :
                              /\ PyInt(r.CustomerID) = Get(g, "CustomerID")
                              /\ InWindow(r, apiRequest.from, apiRequest.to)})
        /\ apiRequest.endpoint = "metrics_top_products" =>
              \A j \in 1..Len(Get(apiResponse.body, "metrics").v) :
                  LET g == Get(apiResponse.body, "metrics").v[j].v
                  IN  Get(g, "transactionCount").v =
                          Cardinality({r \in TableRows :
                              /\ Lit(r.ProductID) = Get(g, "ProductID")
                              /\ InWindow(r, apiRequest.from, apiRequest.to)})

\* from = to = D returns the transactions of D at 00:00 and at 23:59 and not
\* the one of the minute before D
C25_Witness ==
    /\ apiRequest.endpoint = "get_customer"
    /\ apiRequest.from = apiRequest.to
    /\ ~IsNone(apiRequest.from)
    /\ IsList(Get(apiResponse.body, "transactions"))
    /\ Len(Get(apiResponse.body, "transactions").v) = 2
    /\ Get(Get(apiResponse.body, "transactions").v[1].v, "TransactionDate")
           = PyStr(FormatIso(At(2024, 1, 1, 0, 0)))
    /\ Get(Get(apiResponse.body, "transactions").v[2].v, "TransactionDate")
           = PyStr(FormatIso(At(2024, 1, 1, 23, 59)))
    /\ \E r \in TableRows :
          r.CustomerID = apiRequest.customer_id /\ r.at = At(2023, 12, 31, 23, 59)

====
